---- MODULE Spec2Model ----
(***************************************************************************)
(* bcdata: request planning, retrieval and retrying transport of the WFS   *)
(* client (src/src/bcdata/wfs.py).                                         *)
(*                                                                         *)
(* Python values are encoded as follows.  An optional argument is a        *)
(* sequence of length 0 (None) or 1 (the value).  A text built by          *)
(* concatenation (a CQL filter) is the sequence of its tokens.  A request  *)
(* parameter dict is a function from parameter names to values; a key the  *)
(* code does not set is not in its domain.  A feature is the rank (1..n)   *)
(* of the record in the server's ordered set of matching records.          *)
(***************************************************************************)
EXTENDS Integers, Sequences, FiniteSets, TLC

\* ------------------------------------------------------------ bounds
MaxRecords == 3
MaxPagesize == 2
MaxCount == 3

\* ------------------------------------------------------------ values
None == <<>>

Some(v) == <<v>>

Range(s) == {s[i] : i \in 1..Len(s)}

Min(a, b) == IF a < b THEN a ELSE b

Max(a, b) == IF a > b THEN a ELSE b

\* math.ceil(a / b) for a >= 0, b > 0
Ceil(a, b) == (a + b - 1) \div b

ASSESSMENTS_TABLE == "WHSE_FISH.PSCIS_ASSESSMENT_SVW"

AIRPORTS_TABLE == "WHSE_IMAGERY_AND_BASE_MAPS.GSR_AIRPORTS_SVW"

AIRPORTS_PACKAGE == "bc-airports"

\* a layer the catalogue names and the capabilities document does not list
UNLISTED_TABLE == "WHSE_BASEMAPPING.NEW_LAYER_SVW"

\* str.upper() on the names the model uses
Upper(s) ==
  CASE s = "whse_fish.pscis_assessment_svw" -> ASSESSMENTS_TABLE
    [] s = "whse_imagery_and_base_maps.gsr_airports_svw" -> AIRPORTS_TABLE
    [] s = "stream_crossing_id" -> "STREAM_CROSSING_ID"
    [] s = "airport_name" -> "AIRPORT_NAME"
    [] s = "whse_basemapping.new_layer_svw" -> UNLISTED_TABLE
    [] s = AIRPORTS_PACKAGE -> "BC-AIRPORTS"
    [] s = "new-layer" -> "NEW-LAYER"
    [] s = "non-spatial-dataset" -> "NON-SPATIAL-DATASET"
    [] s = "two-layer-dataset" -> "TWO-LAYER-DATASET"
    [] s = "no-such-dataset" -> "NO-SUCH-DATASET"
    [] s = "sequence_id" -> "SEQUENCE_ID"
    [] s = "no_such_column" -> "NO_SUCH_COLUMN"
    [] s = "shape" -> "SHAPE"
    [] s = "feature_length_m" -> "FEATURE_LENGTH_M"
    [] s = "Point" -> "POINT"
    [] s = "MultiPoint" -> "MULTIPOINT"
    [] s = "LineString" -> "LINESTRING"
    [] s = "MultiLineString" -> "MULTILINESTRING"
    [] s = "Polygon" -> "POLYGON"
    [] s = "MultiPolygon" -> "MULTIPOLYGON"
    [] OTHER -> s

\* str.lower() on the names the model uses
Lower(s) ==
  CASE s = ASSESSMENTS_TABLE -> "whse_fish.pscis_assessment_svw"
    [] s = AIRPORTS_TABLE -> "whse_imagery_and_base_maps.gsr_airports_svw"
    [] s = "STREAM_CROSSING_ID" -> "stream_crossing_id"
    [] s = "AIRPORT_NAME" -> "airport_name"
    [] s = UNLISTED_TABLE -> "whse_basemapping.new_layer_svw"
    [] s = "BC-AIRPORTS" -> AIRPORTS_PACKAGE
    [] s = "NEW-LAYER" -> "new-layer"
    [] s = "NON-SPATIAL-DATASET" -> "non-spatial-dataset"
    [] s = "TWO-LAYER-DATASET" -> "two-layer-dataset"
    [] s = "NO-SUCH-DATASET" -> "no-such-dataset"
    [] s = "SEQUENCE_ID" -> "sequence_id"
    [] s = "SHAPE" -> "shape"
    [] s = "FEATURE_LENGTH_M" -> "feature_length_m"
    [] s = "GEOMETRY" -> "geometry"
    [] OTHER -> s

\* the order of str comparison on the column names the model uses
LexRank(s) ==
  CASE s = "AIRPORT_NAME" -> 1
    [] s = "CODE" -> 2
    [] s = "OBJECTID" -> 3
    [] s = "SEQUENCE_ID" -> 4
    [] s = "STREAM_CROSSING_ID" -> 5
    [] OTHER -> 6

\* truthiness of an optional int argument ("if count")
TruthyInt(opt) == opt # None /\ opt[1] # 0

\* truthiness of an optional str argument ("if sortby")
TruthyStr(opt) == opt # None /\ opt[1] # ""

\* truthiness of an optional list or token-sequence argument ("if query or bounds")
TruthySeq(opt) == opt # None /\ opt[1] # <<>>

\* ------------------------------------------------------------ environment
\* the registry of known primary keys, {table.lower(): column}
primary_keys == ("whse_fish.pscis_assessment_svw" :> "stream_crossing_id")

\* tables listed by the capabilities document
list_tables == {ASSESSMENTS_TABLE, AIRPORTS_TABLE}

\* schemas the service may describe a table with
Schemas ==
  { [properties |-> <<"SEQUENCE_ID", "OBJECTID">>, geometry_column |-> "SHAPE"],
    [properties |-> <<"AIRPORT_NAME", "SEQUENCE_ID">>, geometry_column |-> "SHAPE"],
    [properties |-> <<"CODE", "AIRPORT_NAME">>, geometry_column |-> "GEOMETRY"],
    [properties |-> <<>>, geometry_column |-> "GEOMETRY"] }

\* the catalogue (BCDC API): per package, the layer names in the urls of its
\* resources of format "wms"; package_show answers 404 for any other id
Catalogue ==
  (AIRPORTS_PACKAGE :> <<AIRPORTS_TABLE>>)
  @@ ("new-layer" :> <<UNLISTED_TABLE>>)
  @@ ("non-spatial-dataset" :> <<>>)
  @@ ("two-layer-dataset" :> <<AIRPORTS_TABLE, UNLISTED_TABLE>>)

\* arguments callers pass
Datasets ==
  {"whse_fish.pscis_assessment_svw", AIRPORTS_TABLE, AIRPORTS_PACKAGE, "new-layer",
   "non-spatial-dataset", "two-layer-dataset", "no-such-dataset"}

Queries == {None, Some(<<"UTM_ZONE=10">>)}

Boundses == {None, Some(<<1188000, 377051, 1207437, 390361>>)}

\* the retrieval operations are exercised without bounds: bounds only reach the
\* filter of the plan, which DefineRequests covers
RetrievalBoundses == {None}

\* and with a table name in lower case, a table name in upper case and a catalogue
\* label; DefineRequests and ValidateName cover every kind of name
RetrievalDatasets == {"whse_fish.pscis_assessment_svw", AIRPORTS_TABLE, "new-layer"}

Counts == {None} \cup {Some(c) : c \in 0..MaxCount}

Sortbys == {None, Some("airport_name")}

\* what one request through the retrying transport ends with
Outcomes == {"ok", "ServiceException", "HTTPError"}

VARIABLES
  numberMatched,  \* server: number of records matching the call's filter
  pagesize,       \* BCWFS.pagesize, the server's CountDefault
  schema,         \* the schema get_schema returns for the table
  pc,             \* "idle" | "requesting" | "returned" | "raised"
  call,           \* the operation called and its arguments
  urls,           \* the plan define_requests returned
  sent,           \* requests issued to the service by this call, in order
  log,            \* what this call logged: the total requested, then warnings
  error,          \* the exception the call raised, "none" if none
  idx,            \* index in urls of the next page to request
  results,        \* make_requests: the pages fetched so far
  buffer,         \* get_features: features of the current page not yet yielded
  features,       \* what the caller has received
  retval,         \* what validate_name, get_schema or get_capabilities returned
  cache,          \* the cache directory: file name -> [age in days, text]
  refresh,        \* BCWFS.refresh
  lookup,         \* the last check of a cache file and what followed it
  tpc,            \* one _request_* call: "idle" | "sending" | "waiting" | "returned" | "raised"
  treq,           \* its kind ("count" | "features") and request parameters
  attempt,        \* stamina's attempt number
  nrequests,      \* requests.get calls made by the call
  elapsed,        \* time since the call began, in ticks
  waited,         \* the last backoff sleep, in ticks
  response,       \* the last response received
  previous,       \* the status code of the response before it, 0 if none
  tresult,        \* what the call returned or raised
  geometry,       \* server: the geometry kind of each matching record, "null" if none
  tables,         \* destination database: relation name -> its definition and rows
  logged,         \* destination database: the relation names in bcdata.log
  before,         \* destination database: what it held when bc2pg was called
  frame,          \* bc2pg: df, column_names and promote_to_multi of the call
  trace,          \* bc2pg: the phases entered and the page events, in order
  users           \* callers sharing the cache directory: where each is in its call

envvars == <<numberMatched, pagesize, schema>>

callvars == <<pc, call, urls, sent, log, error, idx, results, buffer, features, retval>>

cachevars == <<cache, refresh, lookup>>

tvars == <<tpc, treq, attempt, nrequests, elapsed, waited, response, previous, tresult>>

pgvars == <<geometry, tables, logged, before, frame, trace>>

concvars == <<users>>

vars == <<envvars, callvars, cachevars, tvars, pgvars, concvars>>

\* ------------------------------------------------------------ planner
\* bcdc._package_show: the package's WMS layer names, ValueError on a 400 or 404
\* (the catalogue is taken to answer)
package_show(package) ==
  IF package \in DOMAIN Catalogue
    THEN [error |-> "none", layer_names |-> Catalogue[package]]
    ELSE [error |-> "ValueError", layer_names |-> <<>>]

\* bcdc.get_table_name: [error, table]
get_table_name(package) ==
  LET r == package_show(Lower(package)) IN
  IF r.error # "none" THEN [error |-> r.error, table |-> ""]
  ELSE IF Len(r.layer_names) > 1 THEN [error |-> "ValueError", table |-> ""]
  ELSE IF r.layer_names = <<>> THEN [error |-> "IndexError", table |-> ""]
  ELSE [error |-> "none", table |-> r.layer_names[1]]

\* BCWFS.validate_name: [error, table]
validate_name(dataset) ==
  IF Upper(dataset) \in list_tables
    THEN [error |-> "none", table |-> Upper(dataset)]
    ELSE get_table_name(Upper(dataset))

\* self.cache_refresh_days
cache_refresh_days == 30

\* json.dumps(schema): the text of the document, token by token
json_dumps(doc) ==
  <<"{", "properties">> \o doc.properties
    \o <<"geometry_column", doc.geometry_column, "}">>

\* json.loads(text)
json_loads(text) ==
  [properties |-> SubSeq(text, 3, Len(text) - 3),
   geometry_column |-> text[Len(text) - 1]]

\* the capabilities document the service answers with
capabilities_xml == <<"WFS_Capabilities", "CountDefault", ToString(pagesize)>>

\* check_cached_file refreshing a file on the day it reaches the age limit
check_cached_file_at_limit(cache_file) ==
  IF cache_file \notin DOMAIN cache
    THEN TRUE
    ELSE \/ cache[cache_file].age >= cache_refresh_days
         \/ cache[cache_file].text = <<>>

\* BCWFS.check_cached_file: the file does not exist, is older than
\* cache_refresh_days, or is empty
check_cached_file(cache_file) ==
  IF cache_file \notin DOMAIN cache
    THEN TRUE
    ELSE \/ cache[cache_file].age > cache_refresh_days
         \/ cache[cache_file].text = <<>>

\* what a cache check saw and did: the file's state before, whether the service
\* was contacted
Lookup(cache_file, refresh_, remote) ==
  [file |-> cache_file,
   present |-> cache_file \in DOMAIN cache,
   age |-> IF cache_file \in DOMAIN cache THEN cache[cache_file].age ELSE 0,
   text |-> IF cache_file \in DOMAIN cache THEN cache[cache_file].text ELSE <<>>,
   refresh |-> refresh_,
   remote |-> remote]

\* the pattern of get_schema and get_capabilities: when the file is stale or a
\* refresh is asked for, open the file for writing (which empties it), request the
\* document and write it; then read the file. fetched is the text to write,
\* outcome what the request ends with, refresh_ is self.refresh:
\* [error, text, cache, lookup]
Cached(cache_file, refresh_, fetched, outcome) ==
  IF check_cached_file(cache_file) \/ refresh_
    THEN IF outcome = "ok"
           THEN [error |-> "none", text |-> fetched,
                 cache |-> (cache_file :> [age |-> 0, text |-> fetched]) @@ cache,
                 lookup |-> Lookup(cache_file, refresh_, TRUE)]
           ELSE [error |-> outcome, text |-> <<>>,
                 cache |-> (cache_file :> [age |-> 0, text |-> <<>>]) @@ cache,
                 lookup |-> Lookup(cache_file, refresh_, TRUE)]
    ELSE [error |-> "none", text |-> cache[cache_file].text, cache |-> cache,
          lookup |-> Lookup(cache_file, refresh_, FALSE)]

\* BCWFS.get_schema: [error, value, cache, lookup]; describe is what
\* _request_schema ends with when it is called
get_schema(table, describe) ==
  LET c == Cached(table, refresh, json_dumps(schema), describe)
  IN  [error |-> c.error, cache |-> c.cache, lookup |-> c.lookup,
       value |-> IF c.error = "none" THEN json_loads(c.text) ELSE schema]

\* BCWFS.get_capabilities, called by __init__ after self.refresh is set:
\* [error, text, cache, lookup]
get_capabilities(refresh_, outcome) ==
  Cached("capabilities.xml", refresh_, capabilities_xml, outcome)

\* build_bounds_filter losing the query when bounds are given
build_bounds_filter_bounds_only(query, bounds, bounds_crs, geom_column) ==
  IF ~TruthySeq(bounds)
    THEN IF TruthySeq(query) THEN query ELSE None
    ELSE LET b == bounds[1]
         IN  Some(<<"bbox(", geom_column, ToString(b[1]), ToString(b[2]),
                    ToString(b[3]), ToString(b[4]), bounds_crs, ")">>)

build_bounds_filter(query, bounds, bounds_crs, geom_column) ==
  IF ~TruthySeq(bounds)
    THEN IF TruthySeq(query) THEN query ELSE None
    ELSE LET b == bounds[1]
             bnd_query ==
               <<"bbox(", geom_column, ToString(b[1]), ToString(b[2]),
                 ToString(b[3]), ToString(b[4]), bounds_crs, ")">>
         IN  IF TruthySeq(query)
               THEN Some(query[1] \o <<" AND ">> \o bnd_query)
               ELSE Some(bnd_query)

\* payload of the hits-only query
CountPayload(table, query, bounds, bounds_crs, geom_column) ==
  [service |-> "WFS", version |-> "2.0.0", request |-> "GetFeature",
   typeName |-> table, resultType |-> "hits", outputFormat |-> "json"]
  @@ (IF TruthySeq(query) \/ TruthySeq(bounds)
        THEN ("CQL_FILTER" :>
                build_bounds_filter(query, bounds, bounds_crs, geom_column)[1])
        ELSE <<>>)

\* get_sortkey preferring SEQUENCE_ID to OBJECTID
get_sortkey_sequence_id_first(table) ==
  LET columns == get_schema(table, "ok").value.properties IN
  IF Lower(table) \in DOMAIN primary_keys
    THEN [error |-> "none", key |-> Upper(primary_keys[Lower(table)]), log |-> <<>>]
  ELSE IF "SEQUENCE_ID" \in Range(columns)
    THEN [error |-> "none", key |-> "SEQUENCE_ID", log |-> <<>>]
  ELSE IF "OBJECTID" \in Range(columns)
    THEN [error |-> "none", key |-> "OBJECTID", log |-> <<>>]
  ELSE IF columns = <<>>
    THEN [error |-> "IndexError", key |-> "", log |-> <<>>]
  ELSE [error |-> "none", key |-> columns[1],
        log |-> <<[level |-> "warning", column |-> columns[1]]>>]

get_sortkey(table) ==
  LET columns == get_schema(table, "ok").value.properties IN
  IF Lower(table) \in DOMAIN primary_keys
    THEN [error |-> "none", key |-> Upper(primary_keys[Lower(table)]), log |-> <<>>]
  ELSE IF "OBJECTID" \in Range(columns)
    THEN [error |-> "none", key |-> "OBJECTID", log |-> <<>>]
  ELSE IF "SEQUENCE_ID" \in Range(columns)
    THEN [error |-> "none", key |-> "SEQUENCE_ID", log |-> <<>>]
  ELSE IF columns = <<>>
    THEN [error |-> "IndexError", key |-> "", log |-> <<>>]
  ELSE [error |-> "none", key |-> columns[1],
        log |-> <<[level |-> "warning", column |-> columns[1]]>>]

\* the record count to plan for: [error, count, hits]; hit is what the hits-only
\* query ends with when it is issued
RequestedCount(count, check_count, hit) ==
  IF ~TruthyInt(count) /\ ~check_count
    THEN [error |-> "ValueError", count |-> 0, hits |-> 0]
  ELSE IF ~TruthyInt(count) /\ check_count
    THEN IF hit = "ok"
           THEN [error |-> "none", count |-> numberMatched, hits |-> 1]
           ELSE [error |-> hit, count |-> 0, hits |-> 1]
  ELSE IF TruthyInt(count) /\ check_count
    THEN IF hit = "ok"
           THEN [error |-> "none", hits |-> 1,
                 count |-> IF count[1] > numberMatched THEN numberMatched ELSE count[1]]
           ELSE [error |-> hit, count |-> 0, hits |-> 1]
  ELSE [error |-> "none", count |-> count[1], hits |-> 0]

\* Chunks never planning fewer than one request
ChunksAtLeastOne(count) == Max(1, Ceil(count, pagesize))

\* math.ceil(count / pagesize)
Chunks(count) == Ceil(count, pagesize)

\* Paging with the remainder of the last chunk forgotten: every chunk is a full page
PagingFullLastPage(i0, chunks, count) ==
  IF chunks = 1
    THEN ("count" :> count)
    ELSE ("startIndex" :> i0 * pagesize) @@ ("count" :> pagesize)

\* Paging with the chunk index used as the offset
PagingIndexAsOffset(i0, chunks, count) ==
  IF chunks = 1
    THEN ("count" :> count)
    ELSE ("startIndex" :> i0)
         @@ ("count" :> IF count < i0 * pagesize + pagesize
                          THEN count - i0 * pagesize
                          ELSE pagesize)

\* the startIndex and count parameters of chunk i0 (0-based) of chunks
Paging(i0, chunks, count) ==
  IF chunks = 1
    THEN ("count" :> count)
    ELSE ("startIndex" :> i0 * pagesize)
         @@ ("count" :> IF count < i0 * pagesize + pagesize
                          THEN count - i0 * pagesize
                          ELSE pagesize)

\* the request parameters of chunk i0 (0-based)
Request(i0, chunks, count, table, crs, sortby, query, bounds, bounds_crs, geom_column) ==
  [service |-> "WFS", version |-> "2.0.0", request |-> "GetFeature",
   typeName |-> table, outputFormat |-> "json", SRSNAME |-> crs]
  @@ (IF TruthyStr(sortby) THEN ("sortby" :> Upper(sortby[1])) ELSE <<>>)
  @@ (IF TruthySeq(query) \/ TruthySeq(bounds)
        THEN ("CQL_FILTER" :>
                build_bounds_filter(query, bounds, bounds_crs, geom_column)[1])
        ELSE <<>>)
  @@ Paging(i0, chunks, count)

\* NeedsSortkey asking for a key for single-page plans too
NeedsSortkeyAlways(chunks, sortby) == chunks >= 1 /\ ~TruthyStr(sortby)

\* whether define_requests asks get_sortkey for a key
NeedsSortkey(chunks, sortby) == chunks > 1 /\ ~TruthyStr(sortby)

\* define_requests: [error, urls, sent, log, cache, lookup]; the log starts with
\* "Total features requested: {count}"; describe and hit are what the schema
\* request and the hits-only query end with when they are issued
define_requests(dataset, query, crs, bounds, bounds_crs, count, sortby, check_count, describe, hit) ==
  LET vn == validate_name(dataset)
      table == vn.table
      gs == get_schema(table, describe)
      geom_column == gs.value.geometry_column
      \* get_count validates the table name again before the hits query
      gc == validate_name(table)
      rc == RequestedCount(count, check_count, hit)
      hits == IF rc.hits = 1
                THEN <<CountPayload(gc.table, query, bounds, bounds_crs, geom_column)>>
                ELSE <<>>
      chunks == Chunks(rc.count)
      sk == IF NeedsSortkey(chunks, sortby)
              THEN get_sortkey(table)
              ELSE [error |-> "none", key |-> "", log |-> <<>>]
      sb == IF NeedsSortkey(chunks, sortby) THEN Some(sk.key) ELSE sortby
      info == <<[level |-> "info", total |-> rc.count]>>
  IN  IF vn.error # "none"
        THEN [error |-> vn.error, urls |-> <<>>, sent |-> <<>>, log |-> <<>>,
              cache |-> cache, lookup |-> lookup]
      ELSE IF gs.error # "none"
        THEN [error |-> gs.error, urls |-> <<>>, sent |-> <<>>, log |-> <<>>,
              cache |-> gs.cache, lookup |-> gs.lookup]
      ELSE IF check_count /\ gc.error # "none"
        THEN [error |-> gc.error, urls |-> <<>>, sent |-> <<>>, log |-> <<>>,
              cache |-> gs.cache, lookup |-> gs.lookup]
      ELSE IF rc.error # "none"
        THEN [error |-> rc.error, urls |-> <<>>, sent |-> hits, log |-> <<>>,
              cache |-> gs.cache, lookup |-> gs.lookup]
      ELSE IF sk.error # "none"
        THEN [error |-> sk.error, urls |-> <<>>, sent |-> hits, log |-> info,
              cache |-> gs.cache, lookup |-> gs.lookup]
      ELSE [error |-> "none", sent |-> hits, log |-> info \o sk.log,
            cache |-> gs.cache, lookup |-> gs.lookup,
            urls |-> [i \in 1..chunks |->
                        Request(i - 1, chunks, rc.count, table, crs, sb, query,
                                bounds, bounds_crs, geom_column)]]

\* ------------------------------------------------------------ service
\* the features the service answers a GetFeature request with: the records
\* startIndex+1 .. startIndex+count of the matching set, as far as they exist
ServerFeatures(url) ==
  LET s == IF "startIndex" \in DOMAIN url THEN url["startIndex"] ELSE 0
      c == url["count"]
  IN  [k \in 1..Max(0, Min(c, numberMatched - s)) |-> s + k]

\* ------------------------------------------------------------ retrieval
\* Flatten keeping the last page only: outjson["features"] = result
FlattenLastPageOnly(pages) ==
  IF pages = <<>> THEN <<>> ELSE pages[Len(pages)]

RECURSIVE Flatten(_)
\* make_requests: outjson["features"] += result, for each result in order
Flatten(pages) ==
  IF pages = <<>> THEN <<>> ELSE Head(pages) \o Flatten(Tail(pages))

NoRequest == [kind |-> "none", params |-> <<>>]

NoResponse == [status_code |-> 0, text |-> [kind |-> "none"]]

NoResult == [type |-> "none"]

TransportIdle ==
  /\ tpc = "idle"
  /\ treq = NoRequest
  /\ attempt = 0
  /\ nrequests = 0
  /\ elapsed = 0
  /\ waited = 0
  /\ response = NoResponse
  /\ previous = 0
  /\ tresult = NoResult

NoLookup ==
  [file |-> "", present |-> FALSE, age |-> 0, text |-> <<>>, refresh |-> FALSE,
   remote |-> FALSE]

\* the cache after BCWFS() has been constructed on an empty cache directory
ConstructedCache == ("capabilities.xml" :> [age |-> 0, text |-> capabilities_xml])

NoFrame == [df |-> None, column_names |-> <<>>, promote_to_multi |-> TRUE]

\* no destination database is in use
NoDatabase ==
  /\ geometry = <<>>
  /\ tables = <<>>
  /\ logged = {}
  /\ before = <<>>
  /\ frame = NoFrame
  /\ trace = <<>>

\* no caller is inside a cache lookup of its own
NoUsers == users = <<>>

NoCall ==
  [op |-> "none", dataset |-> "", query |-> None, bounds |-> None,
   count |-> None, sortby |-> None, check_count |-> TRUE]

Init ==
  /\ numberMatched \in 0..MaxRecords
  /\ pagesize \in 1..MaxPagesize
  /\ schema \in Schemas
  /\ pc = "idle"
  /\ call = NoCall
  /\ urls = <<>>
  /\ sent = <<>>
  /\ log = <<>>
  /\ error = "none"
  /\ idx = 1
  /\ results = <<>>
  /\ buffer = <<>>
  /\ features = <<>>
  /\ retval = None
  /\ cache = ConstructedCache
  /\ refresh = FALSE
  /\ lookup = NoLookup
  /\ TransportIdle
  /\ NoUsers
  /\ NoDatabase

\* the planning step every operation starts with
Plan(op, dataset, query, bounds, count, sortby, check_count, describe, hit) ==
  LET bounds_crs == IF op = "define_requests" THEN "EPSG:3005" ELSE "epsg:3005"
      r == define_requests(dataset, query, "epsg:4326", bounds, bounds_crs,
                           count, sortby, check_count, describe, hit)
  IN  /\ call' = [op |-> op, dataset |-> dataset, query |-> query,
                  bounds |-> bounds, count |-> count, sortby |-> sortby,
                  check_count |-> check_count]
      /\ urls' = r.urls
      /\ sent' = r.sent
      /\ log' = r.log
      /\ error' = r.error
      /\ pc' = IF r.error # "none" THEN "raised"
               ELSE IF op = "define_requests" THEN "returned" ELSE "requesting"
      /\ idx' = 1
      /\ cache' = r.cache
      /\ lookup' = r.lookup
      /\ UNCHANGED <<envvars, concvars, pgvars, tvars, results, buffer, features, retval, refresh>>

\* validate_name(dataset) of the package: BCWFS().validate_name(dataset)
ValidateName ==
  /\ pc = "idle"
  /\ \E dataset \in Datasets :
       LET r == validate_name(dataset)
       IN  /\ call' = [NoCall EXCEPT !.op = "validate_name", !.dataset = dataset]
           /\ error' = r.error
           /\ retval' = IF r.error = "none" THEN Some(r.table) ELSE None
           /\ pc' = IF r.error = "none" THEN "returned" ELSE "raised"
  /\ UNCHANGED <<envvars, concvars, pgvars, cachevars, tvars, urls, sent, log, idx, results, buffer,
                 features>>

DefineRequests ==
  /\ pc = "idle"
  /\ \E dataset \in Datasets, query \in Queries, bounds \in Boundses,
        count \in Counts, sortby \in Sortbys, check_count \in BOOLEAN,
        describe \in Outcomes, hit \in Outcomes :
       Plan("define_requests", dataset, query, bounds, count, sortby, check_count,
            describe, hit)

GetData ==
  /\ pc = "idle"
  /\ \E dataset \in RetrievalDatasets, query \in Queries, bounds \in RetrievalBoundses,
        count \in Counts, sortby \in Sortbys, describe \in Outcomes,
        hit \in Outcomes :
       Plan("get_data", dataset, query, bounds, count, sortby, TRUE, describe, hit)

GetFeatures ==
  /\ pc = "idle"
  /\ \E dataset \in RetrievalDatasets, query \in Queries, bounds \in RetrievalBoundses,
        count \in Counts, sortby \in Sortbys, check_count \in BOOLEAN,
        describe \in Outcomes, hit \in Outcomes :
       Plan("get_features", dataset, query, bounds, count, sortby, check_count,
            describe, hit)

\* RequestFeatures with the generator fetching the next page while features of the
\* current page are still to be yielded
RequestFeaturesPrefetching ==
  /\ pc = "requesting"
  /\ idx <= Len(urls)
  /\ sent' = Append(sent, urls[idx])
  /\ \E outcome \in Outcomes :
       IF outcome = "ok"
         THEN /\ idx' = idx + 1
              /\ IF call.op = "get_data"
                   THEN /\ results' = Append(results, ServerFeatures(urls[idx]))
                        /\ UNCHANGED buffer
                   ELSE /\ buffer' = buffer \o ServerFeatures(urls[idx])
                        /\ UNCHANGED results
              /\ UNCHANGED <<pc, error>>
         ELSE /\ pc' = "raised"
              /\ error' = outcome
              /\ UNCHANGED <<idx, results, buffer>>
  /\ UNCHANGED <<envvars, concvars, pgvars, cachevars, tvars, call, urls, log, features, retval>>

\* one _request_features call of make_requests or of the get_features generator;
\* the generator asks for the next page when the caller asks for a feature and the
\* inner loop over the current page is exhausted
RequestFeatures ==
  /\ pc = "requesting"
  /\ idx <= Len(urls)
  /\ call.op = "get_features" => buffer = <<>>
  /\ sent' = Append(sent, urls[idx])
  /\ \E outcome \in Outcomes :
       IF outcome = "ok"
         THEN /\ idx' = idx + 1
              /\ IF call.op = "get_data"
                   THEN /\ results' = Append(results, ServerFeatures(urls[idx]))
                        /\ UNCHANGED buffer
                   ELSE /\ buffer' = ServerFeatures(urls[idx])
                        /\ UNCHANGED results
              /\ UNCHANGED <<pc, error>>
         ELSE /\ pc' = "raised"
              /\ error' = outcome
              /\ UNCHANGED <<idx, results, buffer>>
  /\ UNCHANGED <<envvars, concvars, pgvars, cachevars, tvars, call, urls, log, features, retval>>

\* make_requests merges the pages and returns
MakeRequestsReturn ==
  /\ pc = "requesting"
  /\ call.op = "get_data"
  /\ idx > Len(urls)
  /\ features' = Flatten(results)
  /\ pc' = "returned"
  /\ UNCHANGED <<envvars, concvars, pgvars, cachevars, tvars, call, urls, sent, log, error, idx, results,
                 buffer, retval>>

\* the get_features generator yields the next feature of the current page
Yield ==
  /\ pc = "requesting"
  /\ call.op = "get_features"
  /\ buffer # <<>>
  /\ features' = Append(features, Head(buffer))
  /\ buffer' = Tail(buffer)
  /\ UNCHANGED <<envvars, concvars, pgvars, cachevars, tvars, pc, call, urls, sent, log, error, idx,
                 results, retval>>

\* the get_features generator is exhausted
StopIteration ==
  /\ pc = "requesting"
  /\ call.op = "get_features"
  /\ idx > Len(urls)
  /\ buffer = <<>>
  /\ pc' = "returned"
  /\ UNCHANGED <<envvars, concvars, pgvars, cachevars, tvars, call, urls, sent, log, error, idx, results,
                 buffer, features, retval>>

\* ------------------------------------------------------------ transport
\* _request_count and _request_features under
\* @stamina.retry(on=requests.HTTPError, timeout=60); a tick is 0.1 s
TicksPerSecond == 10

\* timeout=60
Timeout == 60 * TicksPerSecond

\* stamina.retry's defaults for the arguments the decorator does not pass
Attempts == 10

\* wait_initial=0.1
WaitInitial == 1

\* wait_max=5.0
WaitMax == 5 * TicksPerSecond

\* wait_jitter=1.0
WaitJitter == 1 * TicksPerSecond

\* wait_exp_base=2
WaitExpBase == 2

\* status codes the code raises ServiceException for
PermanentCodes == {400, 401, 404}

\* status codes the code calls raise_for_status() for
TransientCodes == {500, 502, 503, 504}

\* status codes the code does not classify
UnclassifiedCodes == {200, 403}

\* how long one requests.get may take: 0.1 s, 20 s
Durations == {1, 20 * TicksPerSecond}

\* random.uniform(0, wait_jitter), at its two ends
Jitters == {0, WaitJitter}

\* bodies of error responses
ErrorTexts ==
  { [kind |-> "text", body |-> "ServiceExceptionReport: unknown layer"],
    [kind |-> "text", body |-> "ServiceExceptionReport: could not parse CQL"] }

\* the body the service answers a well-formed request with
ServerText(req) ==
  IF req.kind = "count"
    THEN [kind |-> "xml", numberMatched |-> ToString(numberMatched)]
    ELSE [kind |-> "json", features |-> ServerFeatures(req.params)]

\* int(s) for the decimal strings of the counts the model uses
ParseInt(s) == CHOOSE k \in 0..(MaxRecords + 1) : ToString(k) = s

\* what the code after the status checks does with the response text:
\* int(ET.fromstring(r.text).attrib["numberMatched"]) or r.json()["features"]
ParseBody(kind, text) ==
  IF kind = "count"
    THEN IF text.kind = "xml"
           THEN [type |-> "return", value |-> ParseInt(text.numberMatched)]
           ELSE [type |-> "ParseError"]
    ELSE IF text.kind = "json"
           THEN [type |-> "return", value |-> text.features]
           ELSE [type |-> "JSONDecodeError"]

\* StopRetrying with the deadline ignored
StopRetryingAttemptsOnly(attempt_number, seconds_since_start) ==
  attempt_number >= Attempts

\* stamina's stop condition after a failed attempt: stop_after_attempt(attempts)
\* or stop_after_delay(timeout)
StopRetrying(attempt_number, seconds_since_start) ==
  attempt_number >= Attempts \/ seconds_since_start >= Timeout

\* stamina's wait before the next attempt: exponential backoff plus jitter, capped
BackoffWait(attempt_number, jitter) ==
  Max(0, Min(WaitInitial * WaitExpBase ^ (attempt_number - 1) + jitter, WaitMax))

\* Retried retrying on every exception
RetriedAnyException(exception) == TRUE

\* the exceptions stamina retries on: on=requests.HTTPError
Retried(exception) == exception = "HTTPError"

\* the requests a transport call may be made with
Requests ==
  { [kind |-> "count",
     params |-> CountPayload(AIRPORTS_TABLE, None, None, "EPSG:3005",
                             get_schema(AIRPORTS_TABLE, "ok").value.geometry_column)] }
  \cup
  { [kind |-> "features", params |-> u] :
      u \in Range(define_requests(AIRPORTS_TABLE, None, "epsg:4326", None,
                                  "EPSG:3005", None, None, TRUE, "ok", "ok").urls) }

InitTransport ==
  /\ numberMatched \in 0..MaxRecords
  /\ pagesize \in 1..MaxPagesize
  /\ schema = [properties |-> <<"AIRPORT_NAME", "SEQUENCE_ID">>,
               geometry_column |-> "SHAPE"]
  /\ pc = "idle"
  /\ call = NoCall
  /\ urls = <<>>
  /\ sent = <<>>
  /\ log = <<>>
  /\ error = "none"
  /\ idx = 1
  /\ results = <<>>
  /\ buffer = <<>>
  /\ features = <<>>
  /\ retval = None
  /\ cache = ConstructedCache
  /\ refresh = FALSE
  /\ lookup = NoLookup
  /\ TransportIdle
  /\ NoUsers
  /\ NoDatabase

\* _request_count or _request_features is called
StartRequest ==
  /\ tpc = "idle"
  /\ \E req \in Requests : treq' = req
  /\ tpc' = "sending"
  /\ attempt' = 1
  /\ UNCHANGED <<envvars, concvars, pgvars, callvars, cachevars, nrequests, elapsed, waited, response, previous,
                 tresult>>

\* what raising exception in attempt number attempt at time now leads to
AfterException(exception, text, now) ==
  IF Retried(exception) /\ ~StopRetrying(attempt, now)
    THEN /\ tpc' = "waiting"
         /\ UNCHANGED tresult
    ELSE /\ tpc' = "raised"
         /\ tresult' = [type |-> exception, text |-> text]

\* requests.get returns a 400, 401 or 404: raise ServiceException(r.text)
RespondPermanent ==
  /\ tpc = "sending"
  /\ \E code \in PermanentCodes, text \in ErrorTexts, d \in Durations :
       /\ response' = [status_code |-> code, text |-> text]
       /\ elapsed' = elapsed + d
       /\ AfterException("ServiceException", text, elapsed + d)
  /\ nrequests' = nrequests + 1
  /\ previous' = response.status_code
  /\ UNCHANGED <<envvars, concvars, pgvars, callvars, cachevars, treq, attempt, waited>>

\* requests.get returns a 500, 502, 503 or 504: r.raise_for_status()
RespondTransient ==
  /\ tpc = "sending"
  /\ \E code \in TransientCodes, text \in ErrorTexts, d \in Durations :
       /\ response' = [status_code |-> code, text |-> text]
       /\ elapsed' = elapsed + d
       /\ AfterException("HTTPError", text, elapsed + d)
  /\ nrequests' = nrequests + 1
  /\ previous' = response.status_code
  /\ UNCHANGED <<envvars, concvars, pgvars, callvars, cachevars, treq, attempt, waited>>

\* requests.get returns any other status: the body is parsed and returned
RespondUnclassified ==
  /\ tpc = "sending"
  /\ \E code \in UnclassifiedCodes, d \in Durations :
     \E text \in (IF code = 200 THEN {ServerText(treq)}
                                ELSE ErrorTexts \cup {ServerText(treq)}) :
       LET parsed == ParseBody(treq.kind, text) IN
       /\ response' = [status_code |-> code, text |-> text]
       /\ elapsed' = elapsed + d
       /\ IF parsed.type = "return"
            THEN /\ tpc' = "returned"
                 /\ tresult' = parsed
            ELSE AfterException(parsed.type, text, elapsed + d)
  /\ nrequests' = nrequests + 1
  /\ previous' = response.status_code
  /\ UNCHANGED <<envvars, concvars, pgvars, callvars, cachevars, treq, attempt, waited>>

\* Backoff re-sending a page request without its offset
BackoffRestartingAtFirstPage ==
  /\ tpc = "waiting"
  /\ \E jitter \in Jitters :
       /\ waited' = BackoffWait(attempt, jitter)
       /\ elapsed' = elapsed + BackoffWait(attempt, jitter)
  /\ attempt' = attempt + 1
  /\ tpc' = "sending"
  /\ treq' = [treq EXCEPT !.params =
                [k \in DOMAIN treq.params \ {"startIndex"} |-> treq.params[k]]]
  /\ UNCHANGED <<envvars, concvars, pgvars, callvars, cachevars, nrequests, response, previous, tresult>>

\* stamina sleeps, then makes the next attempt: the decorated function is called
\* again with the arguments of the call
Backoff ==
  /\ tpc = "waiting"
  /\ \E jitter \in Jitters :
       /\ waited' = BackoffWait(attempt, jitter)
       /\ elapsed' = elapsed + BackoffWait(attempt, jitter)
  /\ attempt' = attempt + 1
  /\ tpc' = "sending"
  /\ UNCHANGED <<envvars, concvars, pgvars, callvars, cachevars, treq, nrequests, response, previous, tresult>>

\* ------------------------------------------------------------ cache
\* the cache directory over time: BCWFS instances are constructed, schemas are
\* asked for, days pass
CachedTables == {AIRPORTS_TABLE}

\* days that pass between two uses of the cache
ClockSteps == {cache_refresh_days \div 2, cache_refresh_days \div 2 + 1}

\* ages are followed up to two days past the limit
MaxAge == cache_refresh_days + 2

InitCache ==
  /\ numberMatched = 0
  /\ pagesize = MaxPagesize
  /\ schema \in {sc \in Schemas : sc.geometry_column = "SHAPE"}
  /\ pc = "idle"
  /\ call = NoCall
  /\ urls = <<>>
  /\ sent = <<>>
  /\ log = <<>>
  /\ error = "none"
  /\ idx = 1
  /\ results = <<>>
  /\ buffer = <<>>
  /\ features = <<>>
  /\ retval = None
  /\ \/ cache = ConstructedCache
     \/ \E table \in CachedTables, text \in {<<>>} \cup {json_dumps(sc) : sc \in Schemas} :
          cache = (table :> [age |-> 0, text |-> text]) @@ ConstructedCache
  /\ refresh \in BOOLEAN
  /\ lookup = NoLookup
  /\ TransportIdle
  /\ NoUsers
  /\ NoDatabase

\* BCWFS(refresh): __init__ sets self.refresh and loads the capabilities; when the
\* request fails no instance is made and the one in use stays
GetCapabilities ==
  /\ pc = "idle"
  /\ \E refresh_ \in BOOLEAN, outcome \in Outcomes :
       LET r == get_capabilities(refresh_, outcome)
       IN  /\ call' = [NoCall EXCEPT !.op = "get_capabilities"]
           /\ cache' = r.cache
           /\ lookup' = r.lookup
           /\ error' = r.error
           /\ retval' = IF r.error = "none" THEN Some(r.text) ELSE None
           /\ refresh' = IF r.error = "none" THEN refresh_ ELSE refresh
  /\ UNCHANGED <<envvars, concvars, pgvars, tvars, pc, urls, sent, log, idx, results, buffer, features>>

\* BCWFS.get_schema(table)
GetSchema ==
  /\ pc = "idle"
  /\ \E table \in CachedTables, describe \in Outcomes :
       LET r == get_schema(table, describe)
       IN  /\ call' = [NoCall EXCEPT !.op = "get_schema", !.dataset = table]
           /\ cache' = r.cache
           /\ lookup' = r.lookup
           /\ error' = r.error
           /\ retval' = IF r.error = "none" THEN Some(r.value) ELSE None
  /\ UNCHANGED <<envvars, concvars, pgvars, tvars, pc, urls, sent, log, idx, results, buffer, features,
                 refresh>>

\* days pass: every cache file gets older
AdvanceClock ==
  /\ pc = "idle"
  /\ \E d \in ClockSteps :
       /\ \A f \in DOMAIN cache : cache[f].age + d <= MaxAge
       /\ cache' = [f \in DOMAIN cache |-> [cache[f] EXCEPT !.age = @ + d]]
  /\ UNCHANGED <<envvars, concvars, pgvars, callvars, tvars, refresh, lookup>>

\* ------------------------------------------------------------ replication
\* bc2pg.SUPPORTED_TYPES
SUPPORTED_TYPES ==
  {"POINT", "POINTZ", "MULTIPOINT", "MULTIPOINTZ", "LINESTRING", "LINESTRINGZ",
   "MULTILINESTRING", "MULTILINESTRINGZ", "POLYGON", "MULTIPOLYGON"}

\* Database.supported_types: the source column types a destination type exists for
supported_types == {"NUMBER", "VARCHAR2", "DATE"}

\* the catalogue's table definitions: comments and schema details per table
TableDefinitions ==
  (AIRPORTS_TABLE :>
     [comments |-> "airports",
      schema |-> <<[column_name |-> "AIRPORT_NAME", data_type |-> "VARCHAR2"],
                   [column_name |-> "SEQUENCE_ID", data_type |-> "NUMBER"],
                   [column_name |-> "SHAPE", data_type |-> "SDO_GEOMETRY"]>>])
  @@ (ASSESSMENTS_TABLE :>
        [comments |-> "assessments",
         schema |-> <<[column_name |-> "STREAM_CROSSING_ID", data_type |-> "NUMBER"],
                      [column_name |-> "FEATURE_LENGTH_M", data_type |-> "NUMBER"],
                      [column_name |-> "GEOMETRY", data_type |-> "SDO_GEOMETRY"]>>])

\* bcdc.get_table_definition: [error, comments, schema]
get_table_definition(table_name) ==
  IF Upper(table_name) \notin list_tables \/ Upper(table_name) \notin DOMAIN TableDefinitions
    THEN [error |-> "ValueError", comments |-> "", schema |-> <<>>]
    ELSE [error |-> "none",
          comments |-> TableDefinitions[Upper(table_name)].comments,
          schema |-> TableDefinitions[Upper(table_name)].schema]

\* geom_type[:5] == "MULTI"
IsMulti(geom_type) ==
  geom_type \in {"MULTIPOINT", "MULTIPOINTZ", "MULTILINESTRING", "MULTILINESTRINGZ",
                 "MULTIPOLYGON", "MULTIPOLYGONZ"}

\* "MULTI" + geom_type on the single-part types
Multi(geom_type) ==
  CASE geom_type = "POINT" -> "MULTIPOINT"
    [] geom_type = "POINTZ" -> "MULTIPOINTZ"
    [] geom_type = "LINESTRING" -> "MULTILINESTRING"
    [] geom_type = "LINESTRINGZ" -> "MULTILINESTRINGZ"
    [] geom_type = "POLYGON" -> "MULTIPOLYGON"
    [] OTHER -> geom_type

\* the relation of an earlier load found in the destination database, with one row
ExistingRelation ==
  [columns |-> <<"airport_name", "sequence_id", "geom">>, primary_key |-> {},
   geom_type |-> "MULTIPOINT", rows |-> <<[id |-> 0, geom |-> "MultiPoint"]>>]

\* define_table that never drops the relation it finds
define_table_keeping_existing(name, table_details, geom_type, primary_key, append) ==
  LET retained == SelectSeq(table_details,
                    LAMBDA c : /\ c.data_type \in supported_types
                               /\ c.column_name \notin {"FEATURE_AREA_SQM", "FEATURE_LENGTH_M"})
      columns == [i \in 1..Len(retained) |-> Lower(retained[i].column_name)] \o <<"geom">>
      table == [columns |-> columns,
                primary_key |-> {c \in Range(columns) : primary_key = Some(c)},
                geom_type |-> IF IsMulti(geom_type) THEN geom_type ELSE Multi(geom_type),
                rows |-> <<>>]
  IN  [columns |-> columns,
       tables |-> IF name \notin DOMAIN tables THEN (name :> table) @@ tables ELSE tables]

\* Database.define_table: [columns, tables], the columns of the table definition
\* it returns and the database it leaves
define_table(name, table_details, geom_type, primary_key, append) ==
  LET retained == SelectSeq(table_details,
                    LAMBDA c : /\ c.data_type \in supported_types
                               /\ c.column_name \notin {"FEATURE_AREA_SQM", "FEATURE_LENGTH_M"})
      columns == [i \in 1..Len(retained) |-> Lower(retained[i].column_name)] \o <<"geom">>
      table == [columns |-> columns,
                primary_key |-> {c \in Range(columns) : primary_key = Some(c)},
                geom_type |-> IF IsMulti(geom_type) THEN geom_type ELSE Multi(geom_type),
                rows |-> <<>>]
      dropped == IF name \in DOMAIN tables /\ ~append
                   THEN [n \in DOMAIN tables \ {name} |-> tables[n]]
                   ELSE tables
  IN  [columns |-> columns,
       tables |-> IF name \notin DOMAIN dropped THEN (name :> table) @@ dropped ELSE dropped]

\* promote_to_multi as bc2pg sets it from the geometry_type option
promote_to_multi(geometry_type_opt) ==
  ~(TruthyStr(geometry_type_opt) /\ Upper(geometry_type_opt[1]) \in {"POINT", "LINE", "POLYGON"})

\* WFS.make_requests([url], as_gdf=True): one row per feature of the page
make_requests_gdf(url) ==
  LET page == ServerFeatures(url)
  IN  [k \in 1..Len(page) |-> [id |-> page[k], geom |-> geometry[page[k]]]]

\* df.geom_type.unique()[0]: the geometry type of the first row, None when the
\* row has no geometry (the records are two-dimensional, has_z is False)
first_geom_type(df) == IF df[1].geom = "null" THEN None ELSE Some(df[1].geom)

\* the cast of points only
PromotePointsOnly(geom) ==
  CASE geom = "Point" -> "MultiPoint"
    [] OTHER -> geom

\* the cast of a single-part geometry to multipart
Promote(geom) ==
  CASE geom = "Point" -> "MultiPoint"
    [] geom = "LineString" -> "MultiLineString"
    [] geom = "Polygon" -> "MultiPolygon"
    [] OTHER -> geom

\* df[df["geom"].isna()]
geom_isna(df) == SelectSeq(df, LAMBDA row : row.geom = "null")

\* df[df["geom"].notna()]
geom_notna(df) == SelectSeq(df, LAMBDA row : row.geom # "null")

\* to_postgis keeping the rows of a statement the database failed
to_postgis_without_rollback(name, df, outcome) ==
  IF \E k \in 1..Len(df) : Upper(df[k].geom) # tables[name].geom_type
    THEN [error |-> "DataError", tables |-> tables]
  ELSE IF outcome # "ok"
    THEN [error |-> outcome, tables |-> [tables EXCEPT ![name].rows = @ \o df]]
  ELSE [error |-> "none", tables |-> [tables EXCEPT ![name].rows = @ \o df]]

\* df.to_postgis(if_exists="append"): [error, tables]; the geometry column takes
\* geometries of its own type only, the insert of a frame is one statement
\* and the database may fail it (outcome)
to_postgis(name, df, outcome) ==
  IF \E k \in 1..Len(df) : Upper(df[k].geom) # tables[name].geom_type
    THEN [error |-> "DataError", tables |-> tables]
  ELSE IF outcome # "ok" THEN [error |-> outcome, tables |-> tables]
  ELSE [error |-> "none", tables |-> [tables EXCEPT ![name].rows = @ \o df]]

\* df_nulls.to_sql(if_exists="append") on the database to_postgis left: [error,
\* tables], one statement of its own
to_sql(db, name, df_nulls, outcome) ==
  IF outcome # "ok" THEN [error |-> outcome, tables |-> db]
  ELSE [error |-> "none", tables |-> [db EXCEPT ![name].rows = @ \o df_nulls]]

\* options callers pass to bc2pg
GeometryTypes == {None, Some("MULTIPOINT"), Some("LINESTRING"), Some("MULTIPOLYGONZ")}

ReplicateCounts == {None, Some(0), Some(MaxCount - 1), Some(MaxCount)}

ReplicateSortbys == {None, Some("airport_name"), Some("no_such_column")}

PrimaryKeys == {None, Some("sequence_id"), Some("no_such_column")}

\* what the fetch of one page ends with
FetchOutcomes == {"ok", "HTTPError"}

\* what an insert into the destination ends with
InsertOutcomes == {"ok", "OperationalError"}

\* the geometries the matching records may have
GeometryLayouts(n) ==
  { [r \in 1..n |-> "Point"],
    [r \in 1..n |-> "null"],
    [r \in 1..n |-> IF r = 1 THEN "null" ELSE "Point"],
    [r \in 1..n |-> IF r = n THEN "null" ELSE "Point"],
    [r \in 1..n |-> IF r = 1 THEN "MultiPoint" ELSE "Point"] }

\* the single-part and the multipart kind of each family of geometries
GeometryFamilies ==
  {{"Point", "MultiPoint"}, {"LineString", "MultiLineString"}, {"Polygon", "MultiPolygon"}}

\* the geometries the records of a table of one family may have, parts mixed
MixedLayouts(n) == UNION {[1..n -> family] : family \in GeometryFamilies}

\* sortby_in_columns letting any column name through
sortby_in_columns_unchecked(sortby, column_names) == TRUE

\* the check of the sortby option: not (sortby and sortby.lower() not in column_names)
sortby_in_columns(sortby, column_names) ==
  ~TruthyStr(sortby) \/ Lower(sortby[1]) \in Range(column_names)

\* primary_key_in_source letting any column name through
primary_key_in_source_unchecked(primary_key, table_details) == TRUE

\* the check of the primary key: not (primary_key and primary_key.upper() not in
\* [c["column_name"].upper() for c in table_definition["schema"]])
primary_key_in_source(primary_key, table_details) ==
  \/ ~TruthyStr(primary_key)
  \/ Upper(primary_key[1]) \in {Upper(c.column_name) : c \in Range(table_details)}

\* the plan bc2pg asks for: bcdata.define_requests(dataset, ..., crs="epsg:3005")
\* with the validated name
bc2pg_requests(dataset, count, sortby) ==
  define_requests(validate_name(dataset).table, None, "epsg:3005", None, None, count,
                  sortby, TRUE, "ok", "ok")

\* a phase of the call entered
Phase(name) == [ev |-> name, n |-> 0]

\* something done with page n of the plan: its request sent ("fetch"), its rows
\* with geometry stored ("to_postgis"), its rows without stored ("to_sql")
PageEvent(name, n) == [ev |-> name, n |-> n]

\* release keeping the frame
release_nothing(held) == held

\* df = None at the end of an iteration: the frame loaded is let go
release(held) == [held EXCEPT !.df = None]

\* loop_events requesting the page after its rows with geometry are stored
loop_events_storing_first(n, fetch) ==
  <<PageEvent("PageLoading", n)>>
    \o <<PageEvent("to_postgis", n)>>
    \o (IF fetch THEN <<PageEvent("fetch", n)>> ELSE <<>>)
    \o <<PageEvent("to_sql", n)>>

\* what one iteration of the load loop does with page n, in order: the request
\* unless the frame is held already, the insert of the rows with geometry, the
\* insert of the rows without
loop_events(n, fetch) ==
  <<PageEvent("PageLoading", n)>>
    \o (IF fetch THEN <<PageEvent("fetch", n)>> ELSE <<>>)
    \o <<PageEvent("to_postgis", n)>>
    \o <<PageEvent("to_sql", n)>>

\* bc2pg up to the load loop: [error, urls, sent, tables, frame, cache, lookup, trace];
\* dr is what bc2pg_requests gave, first and last are what the fetches of the
\* first and of the last page end with when the geometry type is looked up in
\* the data
bc2pg_setup(dataset, dr, geometry_type, sortby, primary_key, schema_only, append, first, last) ==
  LET vn == validate_name(dataset)
      name == Lower(vn.table)
      R(e, s, t, f, p) == [error |-> e, urls |-> dr.urls, sent |-> s, tables |-> t,
                           frame |-> f, cache |-> dr.cache, lookup |-> dr.lookup,
                           trace |-> p]
      td == get_table_definition(vn.table)
      sample == ~TruthyStr(geometry_type)
      page1 == make_requests_gdf(dr.urls[1])
      sample_last == /\ sample
                     /\ first_geom_type(page1) = None
                     /\ dr.urls[Len(dr.urls)] # dr.urls[1]
      pageN == make_requests_gdf(dr.urls[Len(dr.urls)])
      gt == IF ~sample THEN geometry_type
            ELSE IF first_geom_type(page1) # None THEN first_geom_type(page1)
            ELSE IF sample_last THEN first_geom_type(pageN)
            ELSE None
      sent1 == IF sample THEN dr.sent \o <<dr.urls[1]>> ELSE dr.sent
      sentN == IF sample_last THEN sent1 \o <<dr.urls[Len(dr.urls)]>> ELSE sent1
      tR == <<Phase("Resolving")>>
      tA == tR \o <<Phase("AppendValidating")>>
      tS == tR \o <<Phase("SchemaBuilding")>>
      t1 == IF sample THEN tS \o <<PageEvent("fetch", 1)>> ELSE tS
      tN == IF sample_last THEN t1 \o <<PageEvent("fetch", Len(dr.urls))>> ELSE t1
      tC == tN \o <<Phase("Creating")>>
      pk == IF ~TruthyStr(primary_key) /\ name \in DOMAIN primary_keys
              THEN Some(primary_keys[name])
              ELSE primary_key
      dt == define_table(name, td.schema, Upper(gt[1]), pk, FALSE)
      column_names == IF append THEN tables[name].columns ELSE dt.columns
      sort_ok == sortby_in_columns(sortby, column_names)
      loaded == [df |-> IF ~append /\ sample THEN Some(page1) ELSE None,
                 column_names |-> column_names,
                 promote_to_multi |-> promote_to_multi(geometry_type)]
  IN  IF schema_only /\ append
        THEN [error |-> "ValueError", urls |-> <<>>, sent |-> <<>>, tables |-> tables,
              frame |-> NoFrame, cache |-> cache, lookup |-> lookup, trace |-> tR]
      ELSE IF vn.error # "none"
        THEN [error |-> vn.error, urls |-> <<>>, sent |-> <<>>, tables |-> tables,
              frame |-> NoFrame, cache |-> cache, lookup |-> lookup, trace |-> tR]
      ELSE IF dr.error # "none" THEN R(dr.error, dr.sent, tables, NoFrame, tR)
      ELSE IF append
        THEN IF name \notin DOMAIN tables
               THEN R("ValueError", dr.sent, tables, NoFrame, tA)
             ELSE IF ~sort_ok THEN R("ValueError", dr.sent, tables, NoFrame, tA)
             ELSE R("none", dr.sent, tables, loaded, tA)
      ELSE IF td.error # "none" THEN R(td.error, dr.sent, tables, NoFrame, tS)
      ELSE IF td.schema = <<>> THEN R("ValueError", dr.sent, tables, NoFrame, tS)
      ELSE IF sample /\ dr.urls = <<>> THEN R("IndexError", dr.sent, tables, NoFrame, tS)
      ELSE IF sample /\ first # "ok" THEN R(first, sent1, tables, NoFrame, t1)
      ELSE IF sample_last /\ last # "ok" THEN R(last, sentN, tables, NoFrame, tN)
      ELSE IF gt = None THEN R("AttributeError", sentN, tables, NoFrame, tN)
      ELSE IF Upper(gt[1]) \notin SUPPORTED_TYPES
        THEN R("ValueError", sentN, tables, NoFrame, tN)
      ELSE IF ~primary_key_in_source(pk, td.schema)
        THEN R("ValueError", sentN, tables, NoFrame, tN)
      ELSE IF ~sort_ok THEN R("ValueError", sentN, dt.tables, NoFrame, tC)
      ELSE R("none", sentN, dt.tables, loaded, tC)

\* the relation bc2pg writes to: schema_name + "." + table_name
Destination == Lower(validate_name(call.dataset).table)

InitReplicate ==
  /\ numberMatched \in 0..MaxRecords
  /\ pagesize \in 1..MaxPagesize
  /\ schema = [properties |-> <<"AIRPORT_NAME", "SEQUENCE_ID">>,
               geometry_column |-> "SHAPE"]
  /\ pc = "idle"
  /\ call = NoCall
  /\ urls = <<>>
  /\ sent = <<>>
  /\ log = <<>>
  /\ error = "none"
  /\ idx = 1
  /\ results = <<>>
  /\ buffer = <<>>
  /\ features = <<>>
  /\ retval = None
  /\ cache = ConstructedCache
  /\ refresh = FALSE
  /\ lookup = NoLookup
  /\ TransportIdle
  /\ NoUsers
  /\ geometry \in GeometryLayouts(numberMatched)
  /\ tables \in {<<>>, (Lower(AIRPORTS_TABLE) :> ExistingRelation)}
  /\ logged = {}
  /\ before = <<>>
  /\ frame = NoFrame
  /\ trace = <<>>

\* bc2pg(dataset, db_url, ...) is called with options from the given sets and runs
\* up to its load loop
Replicate(datasets, geometry_types, counts, sortbys, keys, modes) ==
  /\ \E dataset \in datasets, geometry_type \in geometry_types, count \in counts,
        sortby \in sortbys, primary_key \in keys, mode \in modes,
        first \in FetchOutcomes, last \in FetchOutcomes :
       \E dr \in {bc2pg_requests(dataset, count, sortby)} :
       \E r \in {bc2pg_setup(dataset, dr, geometry_type, sortby, primary_key,
                              mode.schema_only, mode.append, first, last)} :
           /\ call' = [op |-> "bc2pg", dataset |-> dataset, query |-> None,
                       bounds |-> None, count |-> count, sortby |-> sortby,
                       check_count |-> TRUE, geometry_type |-> geometry_type,
                       primary_key |-> primary_key, schema_only |-> mode.schema_only,
                       append |-> mode.append]
           /\ urls' = r.urls
           /\ sent' = r.sent
           /\ error' = r.error
           /\ tables' = r.tables
           /\ before' = tables
           /\ frame' = r.frame
           /\ cache' = r.cache
           /\ lookup' = r.lookup
           /\ pc' = IF r.error # "none" THEN "raised"
                    ELSE IF mode.schema_only THEN "returned" ELSE "loading"
           /\ retval' = IF r.error = "none" /\ mode.schema_only
                          THEN Some(Lower(validate_name(dataset).table))
                          ELSE None
           /\ trace' = IF r.error = "none" /\ mode.schema_only
                         THEN r.trace \o <<Phase("Done")>>
                         ELSE r.trace
  /\ idx' = 1
  /\ UNCHANGED <<envvars, concvars, tvars, log, results, buffer, features, refresh, geometry, logged>>

\* the schema_only and append options
Modes == [schema_only : BOOLEAN, append : BOOLEAN]

\* bc2pg is called on the airports table
Bc2pg ==
  /\ pc = "idle"
  /\ Replicate({AIRPORTS_TABLE}, GeometryTypes, ReplicateCounts, ReplicateSortbys,
               PrimaryKeys, Modes)

\* one pass of the load loop: the page is fetched unless the frame of the geometry
\* type lookup is at hand, split, cast and appended
LoadPage ==
  /\ pc = "loading"
  /\ idx <= Len(urls)
  /\ \E outcome \in FetchOutcomes, geoms \in InsertOutcomes, nulls \in InsertOutcomes :
       LET fetch == frame.df = None
           df == IF fetch THEN make_requests_gdf(urls[idx]) ELSE frame.df[1]
           df_nulls == geom_isna(df)
           df_geom == IF frame.promote_to_multi
                        THEN [k \in 1..Len(geom_notna(df)) |->
                                [geom_notna(df)[k] EXCEPT !.geom = Promote(@)]]
                        ELSE geom_notna(df)
           pg == to_postgis(Destination, df_geom, geoms)
           sq == to_sql(pg.tables, Destination, df_nulls, nulls)
           events == loop_events(idx, fetch)
           fetched == trace \o SubSeq(events, 1, Len(events) - 2)
           stored == trace \o SubSeq(events, 1, Len(events) - 1)
       IN  /\ sent' = IF fetch THEN Append(sent, urls[idx]) ELSE sent
           /\ IF fetch /\ outcome # "ok"
                THEN /\ pc' = "raised"
                     /\ error' = outcome
                     /\ trace' = fetched
                     /\ UNCHANGED <<tables, frame, idx>>
              ELSE IF pg.error # "none"
                THEN /\ pc' = "raised"
                     /\ error' = pg.error
                     /\ tables' = pg.tables
                     /\ trace' = fetched
                     /\ UNCHANGED <<frame, idx>>
              ELSE IF sq.error # "none"
                THEN /\ pc' = "raised"
                     /\ error' = sq.error
                     /\ tables' = sq.tables
                     /\ trace' = stored
                     /\ UNCHANGED <<frame, idx>>
              ELSE /\ tables' = sq.tables
                   /\ frame' = release(frame)
                   /\ idx' = idx + 1
                   /\ trace' = trace \o events
                   /\ UNCHANGED <<pc, error>>
  /\ UNCHANGED <<envvars, concvars, cachevars, tvars, call, urls, log, results, buffer, features,
                 retval, geometry, logged, before>>

\* Bc2pgReturn leaving the loop after any page
Bc2pgReturnEarly ==
  /\ pc = "loading"
  /\ idx > 1 \/ urls = <<>>
  /\ \E timestamp \in BOOLEAN :
       /\ logged' = IF timestamp THEN logged \cup {Destination} ELSE logged
       /\ trace' = IF timestamp
                     THEN trace \o <<Phase("Timestamping"), Phase("Done")>>
                     ELSE trace \o <<Phase("Done")>>
  /\ retval' = Some(Destination)
  /\ pc' = "returned"
  /\ UNCHANGED <<envvars, concvars, cachevars, tvars, call, urls, sent, log, error, idx, results,
                 buffer, features, geometry, tables, before, frame>>

\* the loop is over: db.log notes the load in bcdata.log when the timestamp
\* option is set and the call is no refresh, and bc2pg returns
Bc2pgReturn ==
  /\ pc = "loading"
  /\ idx > Len(urls)
  /\ \E timestamp \in BOOLEAN :
       /\ logged' = IF timestamp THEN logged \cup {Destination} ELSE logged
       /\ trace' = IF timestamp
                     THEN trace \o <<Phase("Timestamping"), Phase("Done")>>
                     ELSE trace \o <<Phase("Done")>>
  /\ retval' = Some(Destination)
  /\ pc' = "returned"
  /\ UNCHANGED <<envvars, concvars, cachevars, tvars, call, urls, sent, log, error, idx, results,
                 buffer, features, geometry, tables, before, frame>>

Next ==
  \/ ValidateName
  \/ DefineRequests
  \/ GetData
  \/ GetFeatures
  \/ RequestFeatures
  \/ MakeRequestsReturn
  \/ Yield
  \/ StopIteration

Spec == Init /\ [][Next]_vars

NextTransport ==
  \/ StartRequest
  \/ RespondPermanent
  \/ RespondTransient
  \/ RespondUnclassified
  \/ Backoff

SpecTransport == InitTransport /\ [][NextTransport]_vars

NextCache ==
  \/ GetCapabilities
  \/ GetSchema
  \/ AdvanceClock

SpecCache == InitCache /\ [][NextCache]_vars

\* ------------------------------------------------------------ shared cache
\* two callers (processes or threads, each with its own BCWFS) use one cache
\* directory; every statement of get_schema / get_capabilities is a step
Users == {1, 2}

\* the documents the service may answer a schema request with, of two lengths
SchemaVersions ==
  {json_dumps(sc) : sc \in {d \in Schemas : d.geometry_column = "GEOMETRY"}}

\* the documents the service may answer the request for a cache file with
Versions(cache_file) ==
  IF cache_file = "capabilities.xml" THEN {capabilities_xml} ELSE SchemaVersions

\* what an older file in the cache directory may be: absent, or a document
\* fetched earlier, up to date or past the age limit
SharedFiles(cache_file) ==
  {<<>>} \cup {(cache_file :> [age |-> a, text |-> t]) :
                 a \in {0, cache_refresh_days + 1}, t \in Versions(cache_file)}

\* a caller outside any call
Outside ==
  [pc |-> "idle", op |-> "none", file |-> "", refresh |-> FALSE, fetched |-> <<>>,
   read |-> None, error |-> "none"]

InitConcurrent ==
  /\ numberMatched = 0
  /\ pagesize = MaxPagesize
  /\ schema \in {sc \in Schemas : sc.geometry_column = "GEOMETRY"}
  /\ pc = "idle"
  /\ call = NoCall
  /\ urls = <<>>
  /\ sent = <<>>
  /\ log = <<>>
  /\ error = "none"
  /\ idx = 1
  /\ results = <<>>
  /\ buffer = <<>>
  /\ features = <<>>
  /\ retval = None
  /\ \E capabilities \in SharedFiles("capabilities.xml"), table \in SharedFiles(AIRPORTS_TABLE) :
       cache = capabilities @@ table
  /\ refresh = FALSE
  /\ lookup = NoLookup
  /\ TransportIdle
  /\ NoDatabase
  /\ users = [u \in Users |-> Outside]

\* f.write(text) on a file opened with "w" by this caller, flushed when the
\* with-block closes it: the text goes to the start of the file as it is then,
\* what lies behind it stays
write_at_start(content, text) == text \o SubSeq(content, Len(text) + 1, Len(content))

\* the text is one whole json document
IsJson(text) ==
  /\ Len(text) >= 5
  /\ text[1] = "{"
  /\ \A k \in 1..Len(text) : text[k] = "}" <=> k = Len(text)

\* a caller calls get_schema(table) or get_capabilities(), with its own refresh
CallCached ==
  \E u \in Users, cache_file \in {"capabilities.xml", AIRPORTS_TABLE}, refresh_ \in BOOLEAN :
    /\ users[u].pc = "idle"
    /\ users' = [users EXCEPT ![u] =
                   [Outside EXCEPT !.pc = "checking",
                                   !.op = IF cache_file = "capabilities.xml"
                                            THEN "get_capabilities" ELSE "get_schema",
                                   !.file = cache_file,
                                   !.refresh = refresh_]]
    /\ UNCHANGED <<envvars, callvars, cachevars, tvars, pgvars>>

\* if self.check_cached_file(file) or self.refresh
CheckCached ==
  \E u \in Users :
    /\ users[u].pc = "checking"
    /\ users' = [users EXCEPT ![u].pc =
                   IF check_cached_file(users[u].file) \/ users[u].refresh
                     THEN "opening" ELSE "reading"]
    /\ UNCHANGED <<envvars, callvars, cachevars, tvars, pgvars>>

\* with open(file, "w") as f: the file is created or emptied
OpenForWriting ==
  \E u \in Users :
    /\ users[u].pc = "opening"
    /\ cache' = (users[u].file :> [age |-> 0, text |-> <<>>]) @@ cache
    /\ users' = [users EXCEPT ![u].pc = "fetching"]
    /\ UNCHANGED <<envvars, callvars, refresh, lookup, tvars, pgvars>>

\* self._request_schema(table) / self._request_capabilities(): the document, or
\* an exception that closes the file as it is and ends the call
FetchDocument ==
  \E u \in Users, outcome \in Outcomes :
  \E text \in Versions(users[u].file) :
    /\ users[u].pc = "fetching"
    /\ users' = [users EXCEPT ![u] =
                   IF outcome = "ok"
                     THEN [@ EXCEPT !.pc = "writing", !.fetched = text]
                     ELSE [@ EXCEPT !.pc = "raised", !.error = outcome]]
    /\ UNCHANGED <<envvars, callvars, cachevars, tvars, pgvars>>

\* f.write(...) and the end of the with-block
WriteDocument ==
  \E u \in Users :
    /\ users[u].pc = "writing"
    /\ cache' = [cache EXCEPT ![users[u].file] =
                   [age |-> 0, text |-> write_at_start(@.text, users[u].fetched)]]
    /\ users' = [users EXCEPT ![u].pc = "reading"]
    /\ UNCHANGED <<envvars, callvars, refresh, lookup, tvars, pgvars>>

\* with open(file, "r") as f: return f.read(), or json.loads(f.read()) which
\* raises on a text that is no document
ReadDocument ==
  \E u \in Users :
    /\ users[u].pc = "reading"
    /\ LET text == cache[users[u].file].text
       IN  users' = [users EXCEPT ![u] =
                       IF users[u].op = "get_schema" /\ ~IsJson(text)
                         THEN [@ EXCEPT !.pc = "raised", !.read = Some(text),
                                        !.error = "JSONDecodeError"]
                         ELSE [@ EXCEPT !.pc = "returned", !.read = Some(text)]]
    /\ UNCHANGED <<envvars, callvars, cachevars, tvars, pgvars>>

NextConcurrent ==
  \/ CallCached
  \/ CheckCached
  \/ OpenForWriting
  \/ FetchDocument
  \/ WriteDocument
  \/ ReadDocument

SpecConcurrent == InitConcurrent /\ [][NextConcurrent]_vars

\* bc2pg is called in create mode with every kind of primary_key option, on a
\* table the registry has a key for and on one it has none for
Bc2pgPrimaryKey ==
  /\ pc = "idle"
  /\ Replicate({AIRPORTS_TABLE, ASSESSMENTS_TABLE}, {Some("MULTIPOINT")},
               {Some(MaxCount - 1)}, {None},
               {None, Some("sequence_id"), Some("stream_crossing_id"),
                Some("SEQUENCE_ID"), Some("shape"), Some("feature_length_m"),
                Some("no_such_column")},
               {m \in Modes : ~m.append})

NextPrimaryKey ==
  \/ Bc2pgPrimaryKey
  \/ LoadPage
  \/ Bc2pgReturn

SpecPrimaryKey == InitReplicate /\ [][NextPrimaryKey]_vars

\* bc2pg is called, in either mode, with or without a geometry type and a count
Bc2pgFirstRun ==
  /\ pc = "idle"
  /\ Replicate({AIRPORTS_TABLE}, {None, Some("MULTIPOINT")}, {None, Some(MaxCount - 1)},
               {None}, {None}, {m \in Modes : ~m.schema_only})

\* the call has ended, by returning or by raising part-way, and bc2pg is called
\* again with the same options in create mode
Bc2pgRetry ==
  /\ pc \in {"returned", "raised"}
  /\ call.op = "bc2pg"
  /\ Replicate({call.dataset}, {call.geometry_type}, {call.count}, {call.sortby},
               {call.primary_key}, {[schema_only |-> FALSE, append |-> FALSE]})

NextRetry ==
  \/ Bc2pgFirstRun
  \/ Bc2pgRetry
  \/ LoadPage
  \/ Bc2pgReturn

SpecRetry == InitReplicate /\ [][NextRetry]_vars

InitPromote ==
  /\ numberMatched \in 0..MaxRecords
  /\ pagesize \in 1..MaxPagesize
  /\ schema = [properties |-> <<"AIRPORT_NAME", "SEQUENCE_ID">>,
               geometry_column |-> "SHAPE"]
  /\ pc = "idle"
  /\ call = NoCall
  /\ urls = <<>>
  /\ sent = <<>>
  /\ log = <<>>
  /\ error = "none"
  /\ idx = 1
  /\ results = <<>>
  /\ buffer = <<>>
  /\ features = <<>>
  /\ retval = None
  /\ cache = ConstructedCache
  /\ refresh = FALSE
  /\ lookup = NoLookup
  /\ TransportIdle
  /\ NoUsers
  /\ geometry \in MixedLayouts(numberMatched)
  /\ tables = <<>>
  /\ logged = {}
  /\ before = <<>>
  /\ frame = NoFrame
  /\ trace = <<>>

\* bc2pg is called in create mode on a table of mixed single-part and multipart
\* geometries, the geometry type looked up in the data or given as multipart
Bc2pgPromote ==
  /\ pc = "idle"
  /\ Replicate({AIRPORTS_TABLE},
               {None, Some("MULTIPOINT"), Some("MULTILINESTRING"), Some("MULTIPOLYGON")},
               {None}, {None}, {None}, {[schema_only |-> FALSE, append |-> FALSE]})

NextPromote ==
  \/ Bc2pgPromote
  \/ LoadPage
  \/ Bc2pgReturn

SpecPromote == InitPromote /\ [][NextPromote]_vars

NextReplicate ==
  \/ Bc2pg
  \/ LoadPage
  \/ Bc2pgReturn

SpecReplicate == InitReplicate /\ [][NextReplicate]_vars

\* ------------------------------------------------------------ properties
\* define_requests has returned a plan to the operation in progress
PlanReturned ==
  /\ pc \in {"requesting", "returned"}
  /\ call.op \in {"define_requests", "get_data", "get_features"}

\* the record count the plan was made for, as define_requests logged it
Total == log[1].total

\* the offset a descriptor asks for: startIndex, 0 when the parameter is absent
StartIndex(url) == IF "startIndex" \in DOMAIN url THEN url["startIndex"] ELSE 0

RECURSIVE SumCounts(_)
SumCounts(plan) ==
  IF plan = <<>> THEN 0 ELSE Head(plan)["count"] + SumCounts(Tail(plan))

\* the least k with k * p >= n
CeilDiv(n, p) == CHOOSE k \in 0..n : k * p >= n /\ \A j \in 0..(k - 1) : j * p < n

\* C1: with no explicit count, define_requests returns ceil(N/P) descriptors whose
\* counts sum to N, and the last count is N mod P, or P when N mod P = 0
C1_PageCountAndSum ==
  (PlanReturned /\ call.count = None) =>
    /\ Len(urls) = CeilDiv(numberMatched, pagesize)
    /\ SumCounts(urls) = numberMatched
    /\ urls # <<>> =>
         urls[Len(urls)]["count"] =
           IF numberMatched % pagesize = 0 THEN pagesize
                                           ELSE numberMatched % pagesize

C1_Witness ==
  /\ PlanReturned
  /\ call.count = None
  /\ Len(urls) >= 2
  /\ numberMatched % pagesize # 0

\* C2: the descriptors of a plan partition [0, total) in order: descriptor i starts
\* at i*P and takes min(P, remaining) records, the ranges are contiguous, disjoint
\* and cover [0, total), and no count exceeds P
C2_Partition ==
  PlanReturned =>
    LET range(i) == StartIndex(urls[i]) .. (StartIndex(urls[i]) + urls[i]["count"] - 1)
    IN  /\ \A i \in 1..Len(urls) :
             /\ StartIndex(urls[i]) = (i - 1) * pagesize
             /\ urls[i]["count"] = Min(pagesize, Total - (i - 1) * pagesize)
             /\ urls[i]["count"] <= pagesize
             /\ urls[i]["count"] >= 1
        /\ \A i \in 1..(Len(urls) - 1) :
             StartIndex(urls[i + 1]) = StartIndex(urls[i]) + urls[i]["count"]
        /\ \A i, j \in 1..Len(urls) : i # j => range(i) \cap range(j) = {}
        /\ UNION {range(i) : i \in 1..Len(urls)} = 0..(Total - 1)

C2_Witness ==
  /\ PlanReturned
  /\ Len(urls) >= 3
  /\ Total = numberMatched

\* the call issued a hits-only count query
HitsIssued == \E i \in 1..Len(sent) : "resultType" \in DOMAIN sent[i]

\* the call issued a GetFeature page request
PageRequested == \E i \in 1..Len(sent) : "resultType" \notin DOMAIN sent[i]

Retrieval == {"get_data", "get_features"}

\* C3: with n the true match count: an explicit count c with verification on plans
\* min(c, n) records; an explicit count c with check_count false plans exactly c and
\* issues no hits query; no count plans exactly the hits result n
C3_CountPolicy ==
  PlanReturned =>
    /\ (call.count # None /\ call.check_count) =>
         Total = Min(call.count[1], numberMatched)
    /\ (call.count # None /\ ~call.check_count) =>
         Total = call.count[1] /\ ~HitsIssued
    /\ call.count = None => Total = numberMatched /\ HitsIssued

\* the count policy as C3 states it, for explicit counts other than 0
C3_CountPolicyNonzero ==
  (PlanReturned /\ call.count # Some(0)) => C3_CountPolicy

\* C4: an explicit count c smaller than the true count gives at most ceil(c/P)
\* descriptors, and retrieval with it returns exactly c records
C4_ExplicitSmallerCount ==
  (call.count # None /\ call.count[1] < numberMatched) =>
    /\ PlanReturned => Len(urls) <= CeilDiv(call.count[1], pagesize)
    /\ (pc = "returned" /\ call.op \in Retrieval) => Len(features) = call.count[1]

\* C4 for explicit counts other than 0
C4_ExplicitSmallerCountNonzero ==
  call.count # Some(0) => C4_ExplicitSmallerCount

\* C5 as stated: when zero records match, define_requests returns exactly one
\* descriptor, with count 0
C5_OneEmptyDescriptor ==
  (PlanReturned /\ numberMatched = 0) =>
    Len(urls) = 1 /\ urls[1]["count"] = 0

\* the call's dataset argument names, directly or through the catalogue, a table of
\* the capabilities document
TableListed ==
  /\ validate_name(call.dataset).error = "none"
  /\ validate_name(call.dataset).table \in list_tables

\* C5 as amended: when zero records match and the count is verified, define_requests
\* returns no descriptor at all, no page request is issued, and retrieval returns an
\* empty result; for a table that is listed the only errors are those of the
\* transport of the schema request and of the hits query. With verification off the
\* plan has ceil(c/P) descriptors and the result is empty too
C5_EmptyPlan ==
  numberMatched = 0 =>
    /\ (PlanReturned /\ call.check_count) => urls = <<>> /\ ~PageRequested
    /\ (PlanReturned /\ ~call.check_count) =>
         Len(urls) = CeilDiv(call.count[1], pagesize)
    /\ (pc = "returned" /\ call.op \in Retrieval) =>
         features = <<>> /\ error = "none"
    /\ (pc = "raised" /\ call.check_count /\ TableListed) =>
         error \in {"ServiceException", "HTTPError"} /\ ~PageRequested

C5_Witness ==
  /\ numberMatched = 0
  /\ pc = "returned"
  /\ call.op = "get_data"
  /\ urls = <<>>
  /\ features = <<>>

\* C6: every descriptor of a plan of more than one page carries a sort key, the same
\* on every page; a single-page plan carries one only when the caller supplied it
C6_SortKeyOnEveryPage ==
  PlanReturned =>
    /\ Len(urls) > 1 =>
         \A i \in 1..Len(urls) :
           "sortby" \in DOMAIN urls[i] /\ urls[i]["sortby"] = urls[1]["sortby"]
    /\ Len(urls) = 1 =>
         /\ "sortby" \in DOMAIN urls[1] <=> TruthyStr(call.sortby)
         /\ TruthyStr(call.sortby) => urls[1]["sortby"] = Upper(call.sortby[1])

C6_Witness ==
  /\ PlanReturned
  /\ Len(urls) > 1
  /\ call.sortby = None

HasWarning == \E i \in 1..Len(log) : log[i].level = "warning"

\* sorted(columns)[0]
LexFirst(columns) ==
  CHOOSE c \in Range(columns) : \A d \in Range(columns) : LexRank(c) <= LexRank(d)

\* the sort key of a multi-page plan by the precedence explicit key, registered
\* primary key, OBJECTID, SEQUENCE_ID, then the given fallback column with a warning
SortKeyPrecedence(fallback) ==
  LET table == validate_name(call.dataset).table
      columns == Range(schema.properties)
      key == urls[1]["sortby"]
  IN  IF TruthyStr(call.sortby)
        THEN key = Upper(call.sortby[1]) /\ ~HasWarning
      ELSE IF Lower(table) \in DOMAIN primary_keys
        THEN key = Upper(primary_keys[Lower(table)]) /\ ~HasWarning
      ELSE IF "OBJECTID" \in columns
        THEN key = "OBJECTID" /\ ~HasWarning
      ELSE IF "SEQUENCE_ID" \in columns
        THEN key = "SEQUENCE_ID" /\ ~HasWarning
      ELSE key = Upper(fallback) /\ HasWarning

\* C7 as stated: the terminal fallback is the lexicographically first property name
C7_LexicographicFallback ==
  (PlanReturned /\ Len(urls) > 1) => SortKeyPrecedence(LexFirst(schema.properties))

\* C7 as amended: the terminal fallback is the first property name in the schema's
\* own column order, logged with a warning; only a schema without any property has
\* no fallback, and then get_sortkey raises IndexError
C7_FirstColumnFallback ==
  /\ (PlanReturned /\ Len(urls) > 1) =>
       /\ SortKeyPrecedence(schema.properties[1])
       /\ HasWarning => log[Len(log)].column = schema.properties[1]
  /\ (pc = "raised" /\ error = "IndexError"
        /\ validate_name(call.dataset).error = "none") =>
       /\ schema.properties = <<>>
       /\ ~TruthyStr(call.sortby)
       /\ Lower(validate_name(call.dataset).table) \notin DOMAIN primary_keys

C7_Witness ==
  /\ PlanReturned
  /\ Len(urls) > 1
  /\ call.sortby = None
  /\ call.dataset = AIRPORTS_TABLE
  /\ schema.properties = <<"CODE", "AIRPORT_NAME">>
  /\ urls[1]["sortby"] = "CODE"
  /\ HasWarning

\* C8: the filter of every descriptor is query AND bbox(geometry column, bounds)
\* when both are given, the query alone, the bbox predicate alone, or absent when
\* neither is given; a native bbox parameter is never emitted
C8_Filter ==
  PlanReturned =>
    \A i \in 1..Len(urls) :
      LET b == call.bounds[1]
          bbox == <<"bbox(", schema.geometry_column, ToString(b[1]), ToString(b[2]),
                    ToString(b[3]), ToString(b[4]),
                    IF call.op = "define_requests" THEN "EPSG:3005" ELSE "epsg:3005",
                    ")">>
      IN  /\ "bbox" \notin DOMAIN urls[i]
          /\ (call.query # None /\ call.bounds # None) =>
               /\ "CQL_FILTER" \in DOMAIN urls[i]
               /\ urls[i]["CQL_FILTER"] = call.query[1] \o <<" AND ">> \o bbox
          /\ (call.query # None /\ call.bounds = None) =>
               /\ "CQL_FILTER" \in DOMAIN urls[i]
               /\ urls[i]["CQL_FILTER"] = call.query[1]
          /\ (call.query = None /\ call.bounds # None) =>
               /\ "CQL_FILTER" \in DOMAIN urls[i]
               /\ urls[i]["CQL_FILTER"] = bbox
          /\ (call.query = None /\ call.bounds = None) =>
               "CQL_FILTER" \notin DOMAIN urls[i]

C8_Witness ==
  /\ PlanReturned
  /\ call.query # None
  /\ call.bounds # None
  /\ Len(urls) >= 2

\* C9: a 400, 401 or 404 response to a count or feature request ends the call with
\* ServiceException carrying the response text; the request that got it is the
\* call's last (the only one when it is the first response), and none follows
C9_PermanentNotRetried ==
  /\ [](response.status_code \in PermanentCodes =>
          /\ tpc = "raised"
          /\ tresult = [type |-> "ServiceException", text |-> response.text]
          /\ nrequests = attempt
          /\ waited = 0 => nrequests = 1)
  /\ [][response.status_code \in PermanentCodes =>
          UNCHANGED <<tpc, tresult, nrequests, attempt, response>>]_vars

C9_Witness ==
  /\ treq.kind = "count"
  /\ response.status_code = 404
  /\ tpc = "raised"
  /\ tresult.type = "ServiceException"
  /\ nrequests = 1

\* C10 as stated: a transient error is surfaced only after the deadline is exhausted
C10_OnlyAfterDeadline ==
  (tpc = "raised" /\ tresult.type = "HTTPError") => elapsed >= Timeout

\* C10 as amended: a 500, 502, 503 or 504 response is retried after a randomized
\* exponential backoff while fewer than 10 attempts were made and less than 60 s have
\* passed; the error is surfaced once either limit is reached, and never before
C10_DeadlineOrAttempts ==
  /\ tpc = "waiting" =>
       /\ response.status_code \in TransientCodes
       /\ attempt < Attempts
       /\ elapsed < Timeout
  /\ response.status_code \in TransientCodes => tpc \in {"waiting", "sending", "raised"}
  /\ (tpc = "raised" /\ response.status_code \in TransientCodes) =>
       /\ tresult = [type |-> "HTTPError", text |-> response.text]
       /\ attempt = Attempts \/ elapsed >= Timeout
  /\ attempt <= Attempts
  /\ nrequests <= Attempts
  /\ attempt >= 2 =>
       LET base == WaitInitial * WaitExpBase ^ (attempt - 2)
       IN  /\ waited >= Min(base, WaitMax)
           /\ waited <= Min(base + WaitJitter, WaitMax)

C10_Witness ==
  /\ tpc = "raised"
  /\ tresult.type = "HTTPError"
  /\ elapsed >= Timeout
  /\ attempt > 1
  /\ attempt < Attempts

\* what a call returns when its first response is the 200
ImmediateResult ==
  [type |-> "return",
   value |-> IF treq.kind = "count" THEN numberMatched
                                    ELSE ServerFeatures(treq.params)]

\* C11: retries are transparent: whatever transient responses preceded it, the
\* response that is parsed makes the count request and the feature request return
\* what they return when the first response is the 200; every attempt of a call
\* sends the request the call was made with
C11_RetriesTransparent ==
  /\ [](tpc = "returned" => tresult = ImmediateResult)
  /\ [][tpc # "idle" => treq' = treq]_vars

C11_Witness ==
  /\ tpc = "returned"
  /\ previous = 503
  /\ response.status_code = 200
  /\ attempt = 2
  /\ nrequests = 2
  /\ treq.kind = "features"
  /\ "startIndex" \in DOMAIN treq.params
  /\ tresult.value # <<>>

\* the records of the pages before page i of the plan, in plan order
PagesBefore(i) == Flatten([j \in 1..(i - 1) |-> ServerFeatures(urls[j])])

\* the page requests the call has issued, in order
PageRequests == SelectSeq(sent, LAMBDA q : "resultType" \notin DOMAIN q)

\* C12: get_features yields the records page by page in plan order, and page i is
\* requested, and so yielded, only once every record of page i-1 has been yielded:
\* what the caller has received is all of the pages before the last one fetched,
\* followed by the records of the last page fetched that are not in the buffer
C12_PageOrder ==
  (call.op = "get_features" /\ PlanReturned) =>
    /\ features \o buffer = PagesBefore(idx)
    /\ Len(features) >= Len(PagesBefore(idx - 1))
    /\ PageRequests = SubSeq(urls, 1, idx - 1)
    /\ \A k \in 1..(Len(features) - 1) : features[k] < features[k + 1]
    /\ pc = "returned" => features = PagesBefore(Len(urls) + 1)

C12_Witness ==
  /\ call.op = "get_features"
  /\ pc = "requesting"
  /\ Len(urls) >= 2
  /\ idx = 3
  /\ buffer # <<>>
  /\ features = ServerFeatures(urls[1])
  /\ Len(features) = pagesize

\* the multiset of the elements of a sequence
Multiset(seq) ==
  [v \in Range(seq) |-> Cardinality({i \in 1..Len(seq) : seq[i] = v})]

\* the records a retrieval with the call's parameters is for: the first c matching
\* records for a count c that is given, all matching records otherwise
RequestedRecords ==
  [k \in 1..(IF TruthyInt(call.count) THEN Min(call.count[1], numberMatched)
                                      ELSE numberMatched) |-> k]

\* C13: get_data and get_features return the same multiset of records for the same
\* parameters and the same remote dataset: each returns the requested records, once
\* each; get_features returns them in plan order
C13_SameRecords ==
  (pc = "returned" /\ call.op \in Retrieval) =>
    /\ Multiset(features) = Multiset(RequestedRecords)
    /\ Len(features) = Len(RequestedRecords)
    /\ call.op = "get_features" => features = RequestedRecords

C13_Witness ==
  /\ pc = "returned"
  /\ call.op = "get_data"
  /\ Len(urls) >= 2
  /\ Len(results) = Len(urls)
  /\ Len(features) = MaxRecords

\* C14 as stated: every count request and every page request is for a table of
\* list_tables(), and so is the table a plan is made for
C14_RequestsForListedTablesOnly ==
  /\ \A i \in 1..Len(sent) : sent[i].typeName \in list_tables
  /\ PlanReturned => validate_name(call.dataset).table \in list_tables

\* C14 for names that match a table of the capabilities document directly
C14_ListedWhenMatchedDirectly ==
  Upper(call.dataset) \in list_tables => C14_RequestsForListedTablesOnly

\* what C15 says validate_name does with the call's dataset argument, the not-found
\* error being the ValueError of the catalogue lookup
ValidateNameContract(unresolvable) ==
  LET known == Upper(call.dataset) \in list_tables
      package == Lower(Upper(call.dataset))
      resolvable == package \in DOMAIN Catalogue /\ Len(Catalogue[package]) = 1
  IN  /\ known => pc = "returned" /\ retval = Some(Upper(call.dataset))
      /\ (~known /\ resolvable) =>
           pc = "returned" /\ retval = Some(Catalogue[package][1])
      /\ (~known /\ ~resolvable) =>
           pc = "raised" /\ error \in unresolvable /\ retval = None

\* C15 as stated: validate_name returns the upper-case name of a known table, else
\* the table a catalogue label resolves to, and fails with the not-found error and
\* no other when the input is neither
C15_ValidateName ==
  call.op = "validate_name" => ValidateNameContract({"ValueError"})

\* C15 with the IndexError of a package without WMS resource admitted
C15_ValidateNameOrIndexError ==
  call.op = "validate_name" => ValidateNameContract({"ValueError", "IndexError"})

\* C16: get_schema contacts the service exactly when the table's cache file is
\* missing, empty, older than cache_refresh_days or a refresh was asked for, and
\* otherwise returns the cached copy; after a refresh the cache file holds the
\* fetched schema and the value returned equals it
C16_SchemaCache ==
  call.op = "get_schema" =>
    /\ lookup.file = call.dataset
    /\ lookup.remote <=> \/ ~lookup.present
                         \/ lookup.text = <<>>
                         \/ lookup.age > cache_refresh_days
                         \/ lookup.refresh
    /\ (error = "none" /\ lookup.remote) =>
         /\ cache[call.dataset].text = json_dumps(schema)
         /\ retval = Some(schema)
    /\ (error = "none" /\ ~lookup.remote) =>
         /\ cache[call.dataset].text = lookup.text
         /\ retval = Some(json_loads(lookup.text))
    /\ error # "none" => lookup.remote /\ retval = None

C16_Witness ==
  /\ call.op = "get_schema"
  /\ error = "none"
  /\ ~lookup.remote
  /\ lookup.age = cache_refresh_days
  /\ retval # Some(schema)

\* the age limit of the capabilities document by "Cache response as file daily"
CapabilitiesDays == 1

\* C17 as stated: the capabilities document expires on a short limit of its own, the
\* schemas on the long one: a capabilities file is served from the cache only up to
\* the short limit, a schema file up to cache_refresh_days
C17_IndependentExpiry ==
  /\ (call.op = "get_capabilities" /\ ~lookup.remote) => lookup.age <= CapabilitiesDays
  /\ (call.op = "get_schema" /\ ~lookup.remote) => lookup.age <= cache_refresh_days

\* what holds of the two limits: both kinds of file are served from the cache up to
\* the same age, cache_refresh_days
C17_SharedExpiry ==
  (call.op \in {"get_capabilities", "get_schema"} /\ lookup.present
    /\ lookup.text # <<>> /\ ~lookup.refresh) =>
      (lookup.remote <=> lookup.age > cache_refresh_days)

\* a call of bc2pg is in progress or over
Replicating == call.op = "bc2pg"

\* the ids of the records in the destination relation, in row order
DestinationIds ==
  IF Destination \in DOMAIN tables
    THEN [k \in 1..Len(tables[Destination].rows) |-> tables[Destination].rows[k].id]
    ELSE <<>>

\* C18: bc2pg with append=True on a destination that does not exist raises
\* ValueError, the database is as it was (no relation created, no row added)
\* and no page was requested; bc2pg in create mode that gets past its checks has
\* dropped whatever relation was there and created it anew: the relation exists
\* and holds no row from before the call
C18_AppendAndCreate ==
  /\ (Replicating /\ call.append /\ Destination \notin DOMAIN before) =>
        /\ pc = "raised"
        /\ error = "ValueError"
        /\ tables = before
        /\ ~PageRequested
        /\ logged = {}
  /\ (Replicating /\ ~call.append /\ pc \in {"loading", "returned"}) =>
        /\ Destination \in DOMAIN tables
        /\ \A k \in 1..Len(DestinationIds) : DestinationIds[k] # 0
        /\ Destination \in DOMAIN before =>
              \A row \in Range(before[Destination].rows) :
                row \notin Range(tables[Destination].rows)

\* a load in create mode has returned on a destination that held a row, and the
\* relation now holds the records of this load
C18_Witness ==
  /\ Replicating
  /\ ~call.append
  /\ ~call.schema_only
  /\ pc = "returned"
  /\ Destination \in DOMAIN before
  /\ before[Destination].rows # <<>>
  /\ tables[Destination].rows # <<>>

\* an append to a destination that does not exist has been refused
C18_AppendRefused ==
  /\ Replicating
  /\ call.append
  /\ ~call.schema_only
  /\ Destination \notin DOMAIN before
  /\ pc = "raised"
  /\ HitsIssued

\* the geometry_type option names a type bc2pg does not support
UnsupportedGeometryType ==
  TruthyStr(call.geometry_type) /\ Upper(call.geometry_type[1]) \notin SUPPORTED_TYPES

\* the geometry_type option names a supported type that is not the type of the
\* geometries of the dataset
MismatchedGeometryType ==
  /\ TruthyStr(call.geometry_type)
  /\ ~UnsupportedGeometryType
  /\ \E r \in 1..numberMatched :
       /\ geometry[r] # "null"
       /\ Multi(Upper(geometry[r])) # Multi(Upper(call.geometry_type[1]))

\* the columns the destination relation of the table gets
RetainedColumns ==
  {Lower(c.column_name) : c \in {d \in Range(TableDefinitions[call.dataset].schema) :
                                   d.data_type \in supported_types}} \cup {"geom"}

\* the sortby option names a column the relation does not have
UnknownSortKey == TruthyStr(call.sortby) /\ Lower(call.sortby[1]) \notin RetainedColumns

\* the primary_key option names a column the source does not have
UnknownPrimaryKey ==
  /\ TruthyStr(call.primary_key)
  /\ Upper(call.primary_key[1]) \notin
       {Upper(c.column_name) : c \in Range(TableDefinitions[call.dataset].schema)}

\* no record of this call has been appended to the destination
NoRowLoaded == idx = 1 /\ \A k \in 1..Len(DestinationIds) : DestinationIds[k] = 0

\* C19: an unsupported geometry type, a geometry type that does not match the
\* data, an unknown sort key column and an unknown primary key column each make
\* bc2pg raise ValueError before any page is loaded
C19_ValidationBeforeLoad ==
  (/\ Replicating
   /\ \/ UnsupportedGeometryType
      \/ MismatchedGeometryType
      \/ UnknownSortKey
      \/ UnknownPrimaryKey) =>
    /\ pc = "raised"
    /\ error = "ValueError"
    /\ NoRowLoaded

\* C19, as the code has it: a sortby column the relation lacks and, in create
\* mode, a geometry type outside SUPPORTED_TYPES or a primary key the source lacks
\* make bc2pg raise before the load loop, with no record appended; the error is
\* ValueError, unless the geometry type was left to be looked up in the data and
\* that lookup failed first; when the geometry type is given no page has been
\* requested at all; and ValueError is raised before the load loop only
C19_ChecksBeforeLoad ==
  Replicating =>
    /\ (\/ UnknownSortKey
        \/ ~call.append /\ (UnsupportedGeometryType \/ UnknownPrimaryKey)) =>
          /\ pc = "raised"
          /\ NoRowLoaded
          /\ \/ error = "ValueError"
             \/ /\ ~TruthyStr(call.geometry_type)
                /\ ~call.append
                /\ error \in {"HTTPError", "IndexError", "AttributeError"}
          /\ TruthyStr(call.geometry_type) => ~PageRequested
    /\ error = "ValueError" => NoRowLoaded

\* a call in create mode with an unsupported geometry type was refused after the
\* hits query and before any page request, on a dataset that has records
C19_Witness ==
  /\ Replicating
  /\ ~call.append
  /\ UnsupportedGeometryType
  /\ ~UnknownSortKey
  /\ ~UnknownPrimaryKey
  /\ numberMatched > 0
  /\ pc = "raised"
  /\ error = "ValueError"
  /\ HitsIssued
  /\ ~PageRequested

\* a geometry type that does not match the data is found out by the insert of
\* the first page only
C19_MismatchFoundOnInsert ==
  /\ Replicating
  /\ MismatchedGeometryType
  /\ pc = "raised"
  /\ error = "DataError"
  /\ PageRequested
  /\ Destination \in DOMAIN tables

\* the ids of the records this call has appended to the destination
LoadedIds == SelectSeq(DestinationIds, LAMBDA id : id # 0)

RECURSIVE PlannedIds(_)
\* the ids of the records of the first k pages of the plan, in plan order
PlannedIds(k) ==
  IF k = 0 THEN <<>> ELSE PlannedIds(k - 1) \o ServerFeatures(urls[k])

\* the load loop of the call has been entered
Loading ==
  /\ Replicating
  /\ ~call.schema_only
  /\ \/ pc \in {"loading", "returned"}
     \/ pc = "raised" /\ error \in {"HTTPError", "DataError"} /\ frame # NoFrame

\* every page splits into its rows with and its rows without geometry, and the
\* destination holds each record of the pages loaded so far exactly once
Conserved ==
  /\ \A i \in 1..Len(urls) :
       LET df == make_requests_gdf(urls[i])
       IN  /\ Range(geom_isna(df)) \cap Range(geom_notna(df)) = {}
           /\ Multiset(geom_isna(df) \o geom_notna(df)) = Multiset(df)
  /\ Multiset(LoadedIds) = Multiset(PlannedIds(idx - 1))
  /\ pc = "returned" => idx = Len(urls) + 1

\* C20: the rows with and the rows without geometry of a page are disjoint and
\* cover it, every record of a loaded page is in the destination exactly once,
\* and bc2pg with count=c, c not above the number of matching records, returns
\* with exactly c rows in the relation it created
C20_RowConservation ==
  Loading =>
    /\ Conserved
    /\ (/\ pc = "returned"
        /\ ~call.append
        /\ call.count # None
        /\ call.count[1] <= numberMatched) =>
          Len(tables[Destination].rows) = call.count[1]

\* C20 for the counts the planner takes as given: the same with c >= 1, and
\* with count=0 or no count the relation holds every matching record
C20_RowConservationNonzero ==
  Loading =>
    /\ Conserved
    /\ (pc = "returned" /\ ~call.append) =>
          Len(tables[Destination].rows) =
            IF TruthyInt(call.count)
              THEN Min(call.count[1], numberMatched)
              ELSE numberMatched

\* a load with a count below the number of matching records has returned after
\* more than one page, one of them holding a record without geometry
C20_Witness ==
  /\ Loading
  /\ pc = "returned"
  /\ ~call.append
  /\ TruthyInt(call.count)
  /\ call.count[1] < numberMatched
  /\ Len(urls) > 1
  /\ \E r \in Range(LoadedIds) : geometry[r] = "null"
  /\ \E r \in Range(LoadedIds) : geometry[r] # "null"
  /\ Len(tables[Destination].rows) = call.count[1]

\* the key bc2pg is to use: the primary_key option if given, else the key the
\* registry has for the table, else none
ResolvedKey ==
  IF call.primary_key # None THEN call.primary_key
  ELSE IF Lower(call.dataset) \in DOMAIN primary_keys
    THEN Some(primary_keys[Lower(call.dataset)])
  ELSE None

\* the columns of the source table the relation keeps, under their source names
RetainedSource ==
  {c.column_name : c \in {d \in Range(TableDefinitions[call.dataset].schema) :
                             /\ d.data_type \in supported_types
                             /\ d.column_name \notin {"FEATURE_AREA_SQM",
                                                       "FEATURE_LENGTH_M"}}}

\* bc2pg in create mode has defined the relation
Created ==
  /\ Replicating
  /\ ~call.append
  /\ \/ pc \in {"loading", "returned"}
     \/ pc = "raised" /\ error \in {"HTTPError", "DataError", "OperationalError"}
                      /\ frame # NoFrame

\* C21: the key is the explicit argument, else the registry's, else none; an
\* explicit key that is not a column of the retained schema makes bc2pg raise
\* ValueError; and whenever a key is resolved the relation created has exactly
\* that column as its primary key
C21_PrimaryKeyResolution ==
  (Replicating /\ ~call.append) =>
    /\ (/\ call.primary_key # None
        /\ Upper(call.primary_key[1]) \notin RetainedSource) =>
          (pc = "raised" /\ error = "ValueError")
    /\ Created =>
          tables[Destination].primary_key =
            IF ResolvedKey = None THEN {} ELSE {Lower(ResolvedKey[1])}

\* C21, as the code has it: the key is resolved in that order; a resolved key is
\* checked, whatever its case, against the source columns before the columns of
\* unsupported type and the redundant ones are dropped; and the relation has the
\* key column marked only when the key is, letter for letter, the lower-case name
\* of a column it keeps
C21_PrimaryKeyAsCoded ==
  (Replicating /\ ~call.append) =>
    /\ (/\ ResolvedKey # None
        /\ Upper(ResolvedKey[1]) \notin
             {c.column_name : c \in Range(TableDefinitions[call.dataset].schema)}) =>
          (pc = "raised" /\ error = "ValueError")
    /\ Created =>
          tables[Destination].primary_key =
            IF ResolvedKey # None /\ ResolvedKey[1] \in Range(tables[Destination].columns)
              THEN {ResolvedKey[1]}
              ELSE {}

\* the relation was created with the key of the registry marked, no key given
C21_RegistryKeyUsed ==
  /\ Created
  /\ call.primary_key = None
  /\ tables[Destination].primary_key = {"stream_crossing_id"}

\* both inserts of page i of the plan have returned
PageStored(i) ==
  /\ PageEvent("to_postgis", i) \in Range(trace)
  /\ PageEvent("to_sql", i) \in Range(trace)

\* C22: the completion timestamp of the destination is in bcdata.log only when
\* the call has returned, was no schema-only call, raised nothing, and both
\* inserts of every page of its plan have returned, the destination holding the
\* records of all of them; a call that raised has written no timestamp
C22_TimestampAfterAllPages ==
  /\ (Replicating /\ logged # {}) =>
       /\ logged = {Destination}
       /\ pc = "returned"
       /\ error = "none"
       /\ ~call.schema_only
       /\ \A i \in 1..Len(urls) : PageStored(i)
       /\ Multiset(LoadedIds) = Multiset(PlannedIds(Len(urls)))
  /\ (pc = "raised" \/ (Replicating /\ call.schema_only)) => logged = {}

\* the timestamp was written after a load of more than one page
C22_Witness ==
  /\ Replicating
  /\ logged = {Destination}
  /\ Len(urls) > 1
  /\ Len(LoadedIds) = numberMatched

\* the call raised inside its load loop, at page idx of the plan
LoadFailed ==
  /\ Replicating
  /\ pc = "raised"
  /\ PageEvent("PageLoading", idx) \in Range(trace)

\* the ids of the rows of a frame
Ids(df) == [k \in 1..Len(df) |-> df[k].id]

\* the relation holds what it held when the load loop began
RowsFromBeforeKept ==
  call.append =>
    SubSeq(tables[Destination].rows, 1, Len(before[Destination].rows)) =
      before[Destination].rows

\* C23: when the load of page k fails, bc2pg raises the error of the failed
\* step, and the destination holds exactly the records of the pages before k
\* (after what it held before an append), no record of page k or of a later page
C23_PageCommitsAsUnit ==
  LoadFailed =>
    /\ error \in (FetchOutcomes \cup InsertOutcomes \cup {"DataError"}) \ {"ok"}
    /\ RowsFromBeforeKept
    /\ Multiset(LoadedIds) = Multiset(PlannedIds(idx - 1))

\* C23, with the two inserts of a page as the two statements they are: when the
\* fetch of page k or the insert of its rows with geometry fails the destination
\* holds exactly the records of the pages before k; when the insert of its rows
\* without geometry fails it holds these and the rows with geometry of page k;
\* it never holds a row without geometry of page k or a row of a later page, and
\* nothing is rolled back
C23_StatementCommitsAsUnit ==
  LoadFailed =>
    /\ error \in (FetchOutcomes \cup InsertOutcomes \cup {"DataError"}) \ {"ok"}
    /\ RowsFromBeforeKept
    /\ PageEvent("to_sql", idx) \notin Range(trace)
    /\ \A i \in 1..(idx - 1) : PageStored(i)
    /\ Multiset(LoadedIds) =
         Multiset(PlannedIds(idx - 1) \o
                  (IF PageEvent("to_postgis", idx) \in Range(trace)
                     THEN Ids(geom_notna(make_requests_gdf(urls[idx])))
                     ELSE <<>>))

\* the insert of the rows without geometry of a page after the first failed, the
\* rows with geometry of that page being stored
C23_Witness ==
  /\ LoadFailed
  /\ idx > 1
  /\ error = "OperationalError"
  /\ PageEvent("to_postgis", idx) \in Range(trace)
  /\ Len(LoadedIds) > Len(PlannedIds(idx - 1))

RECURSIVE PlanRows(_)
\* the ids of the rows the load of the first k pages stores, in the order stored:
\* of each page the rows with geometry, then the rows without
PlanRows(k) ==
  IF k = 0 THEN <<>>
  ELSE LET df == make_requests_gdf(urls[k])
       IN  PlanRows(k - 1) \o Ids(geom_notna(df)) \o Ids(geom_isna(df))

\* the destination was left by an earlier run of bc2pg that loaded a record
LeftByEarlierRun ==
  /\ Destination \in DOMAIN before
  /\ \E k \in 1..Len(before[Destination].rows) : before[Destination].rows[k].id # 0

\* C24: bc2pg in create mode, whatever an earlier run (complete or aborted
\* part-way) left in the destination, holds during its load only rows of its own
\* plan and returns with exactly the records of its plan, each once, in the
\* order stored: nothing left over, nothing twice, the same contents as a single
\* run gives
C24_RetryRestartsCleanly ==
  (Created /\ ~call.schema_only) =>
    /\ pc = "loading" => DestinationIds = PlanRows(idx - 1)
    /\ pc = "returned" =>
         /\ DestinationIds = PlanRows(Len(urls))
         /\ Multiset(DestinationIds) = Multiset(PlannedIds(Len(urls)))
         /\ Cardinality(Range(DestinationIds)) = Len(DestinationIds)

\* a create-mode run has returned with more than one page loaded on a
\* destination where an earlier run had left some but not all records
C24_Witness ==
  /\ Created
  /\ pc = "returned"
  /\ Len(urls) > 1
  /\ LeftByEarlierRun
  /\ Len(before[Destination].rows) < numberMatched
  /\ DestinationIds = PlanRows(Len(urls))
  /\ Len(DestinationIds) = numberMatched

SingleParts == {"Point", "LineString", "Polygon"}

MultiParts == {"MultiPoint", "MultiLineString", "MultiPolygon"}

Pos(e) ==
  IF \E p \in 1..Len(trace) : trace[p] = e
    THEN CHOOSE p \in 1..Len(trace) : trace[p] = e /\ \A q \in 1..(p - 1) : trace[q] # e
    ELSE 0

IsPhase(e) ==
  e.ev \in {"Resolving", "SchemaBuilding", "Creating", "AppendValidating", "PageLoading",
            "Timestamping", "Done"}

\* the phases the call has entered, in order
Phases == SelectSeq(trace, IsPhase)

\* phase b may be entered next after phase a
Follows(a, b) ==
  LET last == \/ /\ a.ev \in {"Creating", "AppendValidating"}
                   /\ (urls = <<>> \/ call.schema_only)
                \/ a = PageEvent("PageLoading", Len(urls))
  IN  CASE a.ev = "Resolving" -> b.ev = IF call.append THEN "AppendValidating"
                                          ELSE "SchemaBuilding"
        [] a.ev = "SchemaBuilding" -> b.ev = "Creating"
        [] a.ev \in {"Creating", "AppendValidating"} ->
             \/ b = PageEvent("PageLoading", 1) /\ ~last
             \/ b.ev \in {"Timestamping", "Done"} /\ last
        [] a.ev = "PageLoading" ->
             \/ b = PageEvent("PageLoading", a.n + 1) /\ ~last
             \/ b.ev \in {"Timestamping", "Done"} /\ last
        [] a.ev = "Timestamping" -> b.ev = "Done"
        [] OTHER -> FALSE

\* C26: the phases of a call are entered in the order Resolving, SchemaBuilding
\* (create mode), Creating or AppendValidating, PageLoading of each page in plan
\* order, Timestamping, Done, none twice; in the loop a page is requested after
\* its phase began and before its inserts, its rows with geometry are stored
\* before its rows without, and page i+1 is entered only when both inserts of
\* page i have returned; a call that raised has entered no further phase, a call
\* that returned ended with Done
C26_PhaseOrder ==
  Replicating =>
    /\ Phases # <<>> /\ Phases[1] = Phase("Resolving")
    /\ \A k \in 1..(Len(Phases) - 1) : Follows(Phases[k], Phases[k + 1])
    /\ \A i \in 1..Len(urls) :
         Pos(PageEvent("PageLoading", i)) # 0 =>
           /\ \A j \in 1..(i - 1) :
                /\ PageStored(j)
                /\ Pos(PageEvent("to_postgis", j)) < Pos(PageEvent("to_sql", j))
                /\ Pos(PageEvent("to_sql", j)) < Pos(PageEvent("PageLoading", i))
           /\ \A p \in 1..Len(trace) :
                (trace[p].n = i /\ trace[p].ev \in {"to_postgis", "to_sql"}) =>
                  /\ Pos(PageEvent("PageLoading", i)) < p
                  /\ \A q \in (p + 1)..Len(trace) : trace[q] # PageEvent("fetch", i)
    /\ \A p \in 1..Len(trace) :
         trace[p].ev = "fetch" =>
           \/ /\ Pos(Phase("SchemaBuilding")) # 0
              /\ Pos(Phase("SchemaBuilding")) < p
              /\ (Pos(Phase("Creating")) = 0 \/ p < Pos(Phase("Creating")))
           \/ /\ Pos(PageEvent("PageLoading", trace[p].n)) # 0
              /\ Pos(PageEvent("PageLoading", trace[p].n)) < p
    /\ pc = "raised" => /\ Phase("Done") \notin Range(trace)
                        /\ Phase("Timestamping") \notin Range(trace)
    /\ pc = "loading" => Phases[Len(Phases)] \in
                            {Phase("Creating"), Phase("AppendValidating"),
                             PageEvent("PageLoading", idx - 1)}
    /\ pc = "returned" => trace[Len(trace)] = Phase("Done")

\* a call in create mode looked up the geometry type in the first page, loaded
\* more than one page, wrote the timestamp and returned
C26_Witness ==
  /\ Replicating
  /\ pc = "returned"
  /\ Len(urls) > 1
  /\ Phases = <<Phase("Resolving"), Phase("SchemaBuilding"), Phase("Creating")>>
                \o [i \in 1..Len(urls) |-> PageEvent("PageLoading", i)]
                \o <<Phase("Timestamping"), Phase("Done")>>
  /\ Pos(PageEvent("fetch", 1)) < Pos(Phase("Creating"))
  /\ Pos(PageEvent("to_sql", 1)) < Pos(PageEvent("fetch", 2))

\* how often an event is in the trace
Count(e) == Cardinality({p \in 1..Len(trace) : trace[p] = e})

\* how often page i was requested inside its iteration of the load loop
LoopFetches(i) ==
  Cardinality({p \in 1..Len(trace) : /\ trace[p] = PageEvent("fetch", i)
                                     /\ Pos(PageEvent("PageLoading", i)) # 0
                                     /\ Pos(PageEvent("PageLoading", i)) < p})

\* the first page was requested to look up the geometry type
FirstPageSampled ==
  /\ Pos(Phase("Creating")) # 0
  /\ Pos(PageEvent("fetch", 1)) # 0
  /\ Pos(PageEvent("fetch", 1)) < Pos(Phase("Creating"))

\* the ids of the rows the destination held when the call began
BeforeIds ==
  IF call.append /\ Destination \in DOMAIN before
    THEN Ids(before[Destination].rows)
    ELSE <<>>

\* C27: in the load loop every page before the current one was inserted exactly
\* once, by one to_postgis and one to_sql, from one request: the request of its
\* own iteration, or for the first page, when the geometry type was looked up
\* in it, that lookup's request and none in the loop; no later page was
\* inserted; the destination holds the rows of these pages in plan order, each
\* page's own rows; and a frame is held only before the first iteration, and
\* is the first page
C27_FirstPageReused ==
  (Replicating /\ ~call.schema_only /\ pc \in {"loading", "returned"}) =>
    /\ \A i \in 1..Len(urls) :
         /\ Count(PageEvent("to_postgis", i)) = IF i < idx THEN 1 ELSE 0
         /\ Count(PageEvent("to_sql", i)) = IF i < idx THEN 1 ELSE 0
         /\ LoopFetches(i) = IF i < idx /\ ~(i = 1 /\ FirstPageSampled) THEN 1 ELSE 0
         /\ (i = 1 /\ FirstPageSampled) => Count(PageEvent("fetch", 1)) = 1
    /\ DestinationIds = BeforeIds \o PlanRows(idx - 1)
    /\ frame.df # None =>
         /\ idx = 1
         /\ FirstPageSampled
         /\ frame.df[1] = make_requests_gdf(urls[1])
    /\ pc = "returned" => idx = Len(urls) + 1

\* a load of more than one page has returned, its first page taken from the
\* geometry type lookup
C27_Witness ==
  /\ Replicating
  /\ pc = "returned"
  /\ FirstPageSampled
  /\ Len(urls) > 1
  /\ Count(PageEvent("fetch", 1)) = 1
  /\ LoopFetches(2) = 1
  /\ DestinationIds = PlanRows(Len(urls))

\* bc2pg in create mode raised ValueError on an option that names an unsupported
\* geometry type, an unknown primary key column or an unknown sortby column
ValidationFailed ==
  /\ Replicating
  /\ ~call.append
  /\ pc = "raised"
  /\ error = "ValueError"
  /\ UnsupportedGeometryType \/ UnknownPrimaryKey \/ UnknownSortKey

\* C28: when bc2pg in create mode fails on an unsupported geometry type, an
\* unknown primary key column or an unknown sortby column, the destination
\* database is what it was when bc2pg was called
C28_StoreUnchanged ==
  ValidationFailed => tables = before

\* C28, as the code has it: after a failure on the geometry type or on the
\* primary key the destination database is what it was when bc2pg was called;
\* after a failure on the sortby column alone the relation has been defined, any
\* relation of that name dropped with its rows and an empty one created; in no
\* case has a row been added
C28_StoreAfterValidationError ==
  ValidationFailed =>
    IF UnsupportedGeometryType \/ UnknownPrimaryKey
      THEN tables = before /\ Phase("Creating") \notin Range(trace)
      ELSE /\ Phase("Creating") \in Range(trace)
           /\ Destination \in DOMAIN tables
           /\ tables[Destination].rows = <<>>
           /\ tables[Destination].columns = <<"airport_name", "sequence_id", "geom">>
           /\ DOMAIN tables = DOMAIN before \cup {Destination}

\* a call in create mode on a relation that held a row failed on the sortby
\* column, and the row is gone
C28_Witness ==
  /\ ValidationFailed
  /\ UnknownSortKey
  /\ Destination \in DOMAIN before
  /\ before[Destination].rows # <<>>
  /\ tables[Destination].rows = <<>>

\* C29: _request_count and _request_features return only on a response with a
\* 2xx status; the body of a response with any other status is not parsed into
\* the value returned
C29_NonSuccessNeverReturned ==
  tpc = "returned" => response.status_code \in 200..299

\* C29 for the status codes the code names: a call never returns on a 400, 401,
\* 404, 500, 502, 503 or 504, and what it returns is the parsed body of the last
\* response
C29_ClassifiedNeverReturned ==
  tpc = "returned" =>
    /\ response.status_code \notin PermanentCodes \cup TransientCodes
    /\ tresult = ParseBody(treq.kind, response.text)

\* a call returned the parsed body of a 403 response
C29_ForbiddenReturned ==
  /\ tpc = "returned"
  /\ response.status_code = 403
  /\ tresult.type = "return"

\* C30: with two callers on one cache directory, whatever a caller reads from a
\* cache file is a whole document, one of the versions the service gives (never
\* the empty file another caller has opened for writing, never a mix of two
\* versions), and every get_schema or get_capabilities call that returns
\* returns such a document
C30_CompleteDocumentRead ==
  \A u \in DOMAIN users :
    users[u].read # None => users[u].read[1] \in Versions(users[u].file)

\* what holds of the shared cache: a caller reads only a file that exists, a
\* get_schema call returns only a text that parses as one document, and a
\* caller that found the file up to date and was not asked to refresh requests
\* nothing
C30_ReadsWhatIsThere ==
  \A u \in DOMAIN users :
    /\ users[u].pc = "reading" => users[u].file \in DOMAIN cache
    /\ (users[u].pc = "returned" /\ users[u].op = "get_schema") => IsJson(users[u].read[1])
    /\ users[u].error \in {"none", "JSONDecodeError"} \cup Outcomes

\* get_capabilities has returned the empty text of a file another caller had
\* opened for writing
C30_TruncatedFileReturned ==
  \E u \in DOMAIN users :
    /\ users[u].pc = "returned"
    /\ users[u].op = "get_capabilities"
    /\ users[u].read = Some(<<>>)
====
